---- MODULE Spec2Model ----
(***************************************************************************)
(* Verification model of the Alfa Payment backend: the reconciliation      *)
(* engine (backend/utils.py), the sync orchestrator                        *)
(* (backend/sync_engine.py) and its triggers (backend/main.py).            *)
(*                                                                         *)
(* Python values are modelled as records [k, s]: k is the kind ("none" for *)
(* None, "str" for a str, "obj" for a JSON list/dict value as the CRM      *)
(* returns for multi-select and lookup fields) and s is the text of the    *)
(* value, a sequence of one-character strings, so that strip() and lower() *)
(* are computed and not assumed.                                           *)
(***************************************************************************)
EXTENDS Integers, Sequences, FiniteSets, TLC

VARIABLES
    store,      \* committed rows of the interpreters table, in rowid order
    rcPhase,    \* reconciliation harness: "idle", "pass1", "pass2"
    rcBatch,    \* the candidate batch of the current import
    rcUpd,      \* its update_existing flag
    rcStore0,   \* the committed store the last pass ran against
    rcRes,      \* the result of the last pass of process_interpreter_import
    rcRes1,     \* the result of pass 1 (kept while pass 2 runs)
    rcStore1,   \* the committed store after pass 1
    rcCommitted,\* whether the commit that followed the last pass succeeded
    rcCommitted1,\* whether the commit that followed pass 1 succeeded
    rcNow,      \* the millisecond clock read for the identifiers of created records
    chExisting, \* change detection: the local record
    chNew,      \* change detection: the candidate's mapped data
    chPc,       \* change detection: "input" or "done"
    chHas,      \* result of has_changes
    chFields,   \* result of get_changed_fields (the set of changed field names)
    syPc,       \* run_sync: the step the run is at
    syOp,       \* run_sync: the SyncOperation object of the session
    syRow,      \* run_sync: the committed sync_operations row of the run
    syCands,    \* run_sync: the candidates fetched
    syRes,      \* run_sync: the result of process_interpreter_import
    syIds,      \* run_sync: processed_record_ids
    syNext,     \* run_sync: the write-back loop index i
    sySynced,   \* run_sync: successfully_synced
    syErrs,     \* run_sync: sync_errors
    syEvents,   \* run_sync: rate-limiter calls, CRM requests and commits, in order
    syWrites,   \* run_sync: the versions of the sync_operations row, in commit order
    syFaults,   \* run_sync: the number of steps that have raised so far
    sySent,     \* run_sync: the batches of record ids sent to the CRM, in order
    syReplied,  \* run_sync: what the CRM did with each batch sent, in order
    is_syncing, \* main.py: the module-level flag _is_syncing
    trPc,       \* triggers: where each request (and its background task) is
    trOps,      \* triggers: the sync_operations table, in order of creation
    trRunRow,   \* triggers: per request, the row its call of run_sync created
    trNow,      \* triggers: the clock, in minutes
    trSoon,     \* triggers: per request, whether it came and passed too soon after a run
    trGiven,    \* triggers: per request, the row force_sync returned to its caller
    rlNow,      \* rate limiter: time.time(), in ticks
    calls,      \* rate limiter: self.calls, the deque of recorded timestamps
    rlLock,     \* rate limiter: the holder of self._lock, or "free"
    rlLocal,    \* rate limiter: per caller, the locals of its call of acquire
    rlPc,       \* rate limiter: where each caller is
    rlWake,     \* rate limiter: per caller, the earliest time its sleep ends
    rlOps,      \* rate limiter: the calls started so far
    rlLast,     \* rate limiter: the last call of acquire, with the history it saw
    rlAll,      \* rate limiter: every timestamp ever recorded, in order
    rlDenied,   \* rate limiter: the wait times acquire has returned, in order
    rlReturned, \* rate limiter: the returns of wait_if_needed: slept or not, recorded or not
    import_jobs, \* job tracker: the keys of the table in insertion order, each with its dict
    jtCur,      \* job tracker: the key whose stored dict a reader holds, or 0
    jtSets,     \* job tracker: the calls of set_job_status so far
    jtNow,      \* job tracker: datetime.utcnow(), in hours
    jtCleaned,  \* job tracker: cleanup_old_jobs was the last call on the table
    jtRemoved,  \* job tracker: the entries the last cleanup deleted: status and pass
    jtOutside,  \* job tracker: a stored dict was changed outside set_job_status
    jtDirty,    \* job tracker: the keys whose stored dict was changed since their last set
    jtGot,      \* job tracker: what the get_job_status just made returned, against the last set
    jtStamped,  \* job tracker: every set so far stored the timestamp it had to
    tmPc,       \* test mode: the step test_sync_single_record is at
    tmArgs,     \* test mode: the record_id and email arguments of the call
    tmRecord,   \* test mode: the record fetched from the CRM
    tmResult,   \* test mode: the result dict
    tmDecision, \* test mode: the local record selected and what was done with it
    tmEvents,   \* test mode: rate-limiter calls, CRM requests and commits, in order
    tmStore0,   \* test mode: the committed store the call ran against
    tmOutcome,  \* test mode: "none" while running, then "returned"
    bgPc,       \* import request: the step the endpoint or its background task is at
    bgJob,      \* import request: the job id of an asynchronous import, 0 otherwise
    bgValid,    \* import request: whether the arguments were in their ranges
    bgDetail,   \* import request: the detail of the HTTP error answered, "" if none
    bgCands,    \* import request: the candidates fetched
    bgRes,      \* import request: the result of process_interpreter_import
    bgStore0,   \* import request: the committed store the pass ran against
    bgWrites,   \* import request: the status and progress written to the tracker, in order
    bgResults,  \* import request: the counts of the summary of a completed import
    bgEvents    \* import request: rate-limiter calls, CRM requests and commits, in order

rcVars == <<rcPhase, rcBatch, rcUpd, rcStore0, rcRes, rcRes1, rcStore1, rcCommitted, rcCommitted1, rcNow>>
chVars == <<chExisting, chNew, chPc, chHas, chFields>>
syVars == <<syPc, syOp, syRow, syCands, syRes, syIds, syNext, sySynced, syErrs, syEvents,
            syWrites, syFaults, sySent, syReplied>>
trVars == <<is_syncing, trPc, trOps, trRunRow, trNow, trSoon, trGiven>>
rlVars == <<rlNow, calls, rlLock, rlLocal, rlPc, rlWake, rlOps, rlLast, rlAll, rlDenied, rlReturned>>
jtVars == <<import_jobs, jtCur, jtSets, jtNow, jtCleaned, jtRemoved, jtOutside, jtDirty, jtGot,
           jtStamped>>
tmVars == <<tmPc, tmArgs, tmRecord, tmResult, tmDecision, tmEvents, tmStore0, tmOutcome>>
bgVars == <<bgPc, bgJob, bgValid, bgDetail, bgCands, bgRes, bgStore0, bgWrites, bgResults,
           bgEvents>>
appVars == <<tmVars, bgVars>>
libVars == <<rlVars, jtVars, appVars>>
vars == <<store, rcVars, chVars, syVars, trVars, libVars>>

-----------------------------------------------------------------------------
(* Python values and the string operations the code applies to them *)

None == [k |-> "none", s |-> <<>>]
Str(t) == [k |-> "str", s |-> t]
\* a JSON list value; s is what str() prints for it
Obj == [k |-> "obj", s |-> <<"[", "a", "]">>]

\* bool(v): None and "" are falsy, a non-empty str or list is truthy
Truthy(v) == v.k # "none" /\ v.s # <<>>

\* a or b
PyOr(a, b) == IF Truthy(a) THEN a ELSE b

LowerChar(c) ==
    CASE c = "N" -> "n"
      [] c = "O" -> "o"
      [] c = "E" -> "e"
      [] c = "A" -> "a"
      [] OTHER -> c

\* str.lower()
Lower(t) == [i \in 1..Len(t) |-> LowerChar(t[i])]

IsSpace(c) == c = " "

RECURSIVE LStrip(_)
LStrip(t) == IF t # <<>> /\ IsSpace(Head(t)) THEN LStrip(Tail(t)) ELSE t

RECURSIVE RStrip(_)
RStrip(t) ==
    IF t # <<>> /\ IsSpace(t[Len(t)]) THEN RStrip(SubSeq(t, 1, Len(t) - 1)) ELSE t

\* str.strip()
Strip(t) == RStrip(LStrip(t))

NoneText == <<"n", "o", "n", "e">>
UnknownText == <<"U", "n", "k", "n", "o", "w", "n">>

-----------------------------------------------------------------------------
(* utils.py: change detection *)

has_changes_fields ==
    <<"contact_name", "last_name", "email", "employee_id",
      "cloudbreak_id", "languagelink_id", "propio_id",
      "language", "country", "payment_frequency", "service_location",
      "onboarding_status", "rate_per_minute", "rate_per_hour">>

get_changed_fields_fields == has_changes_fields \o <<"record_id">>

\* a bug that would compare the raw text, without strip()
has_changes_normalize_nostrip(val) ==
    IF val.k = "none" \/ (val.k = "str" /\ val.s = <<>>) \/ Lower(val.s) = NoneText
    THEN None
    ELSE Str(val.s)

\* the normalize helper of has_changes
has_changes_normalize(val) ==
    IF val.k = "none" \/ (val.k = "str" /\ val.s = <<>>) \/ Lower(val.s) = NoneText
    THEN None
    ELSE Str(Strip(val.s))

\* the normalize helper of get_changed_fields
get_changed_fields_normalize(val) ==
    IF val.k = "none" \/ (val.k = "str" /\ val.s = <<>>) \/ Lower(val.s) = NoneText
    THEN None
    ELSE Str(Strip(val.s))

has_changes(existing, new_data) ==
    \E i \in 1..Len(has_changes_fields) :
        LET field == has_changes_fields[i] IN
        has_changes_normalize(new_data[field]) # has_changes_normalize(existing[field])

\* a bug that would leave a blank new value out of the changed map
get_changed_fields_skip_blank(existing, new_data) ==
    { get_changed_fields_fields[i] : i \in
        { j \in 1..Len(get_changed_fields_fields) :
            LET field == get_changed_fields_fields[j] IN
            /\ Truthy(new_data[field])
            /\ get_changed_fields_normalize(new_data[field])
                  # get_changed_fields_normalize(existing[field]) } }

\* the changed map: its keys; the value of key f is new_data[f]
get_changed_fields(existing, new_data) ==
    { get_changed_fields_fields[i] : i \in
        { j \in 1..Len(get_changed_fields_fields) :
            LET field == get_changed_fields_fields[j] IN
            get_changed_fields_normalize(new_data[field])
                # get_changed_fields_normalize(existing[field]) } }

-----------------------------------------------------------------------------
(* utils.py: field mapping *)

ZohoKeys ==
    {"id", "Full_Name", "Last_Name", "Email", "Emplyee_ID", "Emp_ID", "Employee_ID",
     "Interpreter_ID", "Cloudbreak_ID", "Languagelink_ID", "LanguageLink_ID",
     "Propio_ID", "Language", "Native_Language", "Mailing_Country", "Country",
     "Payment_Frequency", "Service_Location", "Work_Location", "Job_Scheduling",
     "LL_Onboarding_Status", "Agreed_Rate", "Rate_Hour"}

\* a candidate with no field set: candidate.get(key) is None for every key
EmptyCandidate == [key \in ZohoKeys |-> None]

clean_rate(value) ==
    IF value.k = "none" \/ (value.k = "str" /\ value.s = <<>>) \/ Lower(value.s) = NoneText
    THEN Str(<<>>)
    ELSE Str(value.s)

\* a bug that would take the name as it comes, with no default
map_zoho_contact_to_interpreter_no_default(candidate) ==
    [record_id |-> candidate["id"],
     contact_name |-> candidate["Full_Name"],
     last_name |-> candidate["Last_Name"],
     email |-> candidate["Email"],
     employee_id |-> PyOr(candidate["Emplyee_ID"], PyOr(candidate["Emp_ID"],
                        PyOr(candidate["Employee_ID"], candidate["Interpreter_ID"]))),
     cloudbreak_id |-> candidate["Cloudbreak_ID"],
     languagelink_id |-> PyOr(candidate["Languagelink_ID"], candidate["LanguageLink_ID"]),
     propio_id |-> candidate["Propio_ID"],
     language |-> PyOr(candidate["Language"], candidate["Native_Language"]),
     country |-> PyOr(candidate["Mailing_Country"], candidate["Country"]),
     payment_frequency |-> candidate["Payment_Frequency"],
     service_location |-> PyOr(candidate["Service_Location"], PyOr(candidate["Work_Location"],
                        PyOr(candidate["Job_Scheduling"], Str(<<>>)))),
     onboarding_status |-> candidate["LL_Onboarding_Status"],
     rate_per_minute |-> clean_rate(candidate["Agreed_Rate"]),
     rate_per_hour |-> clean_rate(candidate["Rate_Hour"])]

\* The dict returned by the mapping, after the "Remove None values" step of
\* process_interpreter_import: a key whose value is None is a key that is absent
\* (new_data.get(key) is None either way, and the model constructor leaves an
\* absent column None).
map_zoho_contact_to_interpreter(candidate) ==
    [record_id |-> candidate["id"],
     contact_name |-> PyOr(candidate["Full_Name"], Str(UnknownText)),
     last_name |-> candidate["Last_Name"],
     email |-> candidate["Email"],
     employee_id |-> PyOr(candidate["Emplyee_ID"], PyOr(candidate["Emp_ID"],
                        PyOr(candidate["Employee_ID"], candidate["Interpreter_ID"]))),
     cloudbreak_id |-> candidate["Cloudbreak_ID"],
     languagelink_id |-> PyOr(candidate["Languagelink_ID"], candidate["LanguageLink_ID"]),
     propio_id |-> candidate["Propio_ID"],
     language |-> PyOr(candidate["Language"], candidate["Native_Language"]),
     country |-> PyOr(candidate["Mailing_Country"], candidate["Country"]),
     payment_frequency |-> candidate["Payment_Frequency"],
     service_location |-> PyOr(candidate["Service_Location"], PyOr(candidate["Work_Location"],
                        PyOr(candidate["Job_Scheduling"], Str(<<>>)))),
     onboarding_status |-> candidate["LL_Onboarding_Status"],
     rate_per_minute |-> clean_rate(candidate["Agreed_Rate"]),
     rate_per_hour |-> clean_rate(candidate["Rate_Hour"])]

DataFields == DOMAIN map_zoho_contact_to_interpreter(EmptyCandidate)

-----------------------------------------------------------------------------
(* utils.py: process_interpreter_import, against a session opened with       *)
(* autoflush=False (database.py): a query reads the committed rows, so a row *)
(* added or changed earlier in the same batch is not seen by a later lookup, *)
(* while the object a lookup returns carries the changes already made to it  *)
(* in this session.                                                          *)

RowFields == DataFields \cup {"id"}

Lowest(S) == CHOOSE r \in S : \A q \in S : r <= q

\* db.query(Interpreter).filter(column == v).first(): the first committed row, in
\* rowid order, whose column equals v; 0 when there is none
FirstRow(db, field, v) ==
    IF \E i \in 1..Len(db) : db[i][field] = v
    THEN CHOOSE i \in 1..Len(db) :
            db[i][field] = v /\ \A j \in 1..(i - 1) : db[j][field] # v
    ELSE 0

\* a list or dict value cannot be bound as a query parameter: the query raises
QueryRaises(v) == v.k = "obj"

\* a bug that would try the email before the record id
find_existing_email_first(db, data) ==
    LET byEmail == IF Truthy(data.email) /\ ~QueryRaises(data.email)
                   THEN FirstRow(db, "email", data.email) ELSE 0
        byId == IF Truthy(data.record_id) /\ ~QueryRaises(data.record_id)
                THEN FirstRow(db, "record_id", data.record_id) ELSE 0
        byEmp == IF Truthy(data.employee_id) /\ ~QueryRaises(data.employee_id)
                 THEN FirstRow(db, "employee_id", data.employee_id) ELSE 0
    IN  IF Truthy(data.email) /\ QueryRaises(data.email)
        THEN [raised |-> TRUE, idx |-> 0, key |-> "email"]
        ELSE IF byEmail # 0 THEN [raised |-> FALSE, idx |-> byEmail, key |-> "email"]
        ELSE IF Truthy(data.record_id) /\ QueryRaises(data.record_id)
        THEN [raised |-> TRUE, idx |-> 0, key |-> "record_id"]
        ELSE IF byId # 0 THEN [raised |-> FALSE, idx |-> byId, key |-> "record_id"]
        ELSE IF Truthy(data.employee_id) /\ QueryRaises(data.employee_id)
        THEN [raised |-> TRUE, idx |-> 0, key |-> "employee_id"]
        ELSE IF byEmp # 0 THEN [raised |-> FALSE, idx |-> byEmp, key |-> "employee_id"]
        ELSE [raised |-> FALSE, idx |-> 0, key |-> "none"]

\* the three lookups of process_interpreter_import, each made only when the
\* candidate's key is truthy and no earlier lookup found a row
find_existing(db, data) ==
    LET byId == IF Truthy(data.record_id) /\ ~QueryRaises(data.record_id)
                THEN FirstRow(db, "record_id", data.record_id) ELSE 0
        byEmail == IF Truthy(data.email) /\ ~QueryRaises(data.email)
                   THEN FirstRow(db, "email", data.email) ELSE 0
        byEmp == IF Truthy(data.employee_id) /\ ~QueryRaises(data.employee_id)
                 THEN FirstRow(db, "employee_id", data.employee_id) ELSE 0
    IN  IF Truthy(data.record_id) /\ QueryRaises(data.record_id)
        THEN [raised |-> TRUE, idx |-> 0, key |-> "record_id"]
        ELSE IF byId # 0 THEN [raised |-> FALSE, idx |-> byId, key |-> "record_id"]
        ELSE IF Truthy(data.email) /\ QueryRaises(data.email)
        THEN [raised |-> TRUE, idx |-> 0, key |-> "email"]
        ELSE IF byEmail # 0 THEN [raised |-> FALSE, idx |-> byEmail, key |-> "email"]
        ELSE IF Truthy(data.employee_id) /\ QueryRaises(data.employee_id)
        THEN [raised |-> TRUE, idx |-> 0, key |-> "employee_id"]
        ELSE IF byEmp # 0 THEN [raised |-> FALSE, idx |-> byEmp, key |-> "employee_id"]
        ELSE [raised |-> FALSE, idx |-> 0, key |-> "none"]

\* a bug that would assign every mapped field, changed or not
apply_changed_fields_all(existing, new_data, changed) ==
    [f \in RowFields |-> IF f \in DOMAIN new_data THEN new_data[f] ELSE existing[f]]

\* a bug that would report an update and write nothing
apply_changed_fields_nothing(existing, new_data, changed) == existing

\* for key, value in changed_fields.items(): setattr(existing, key, value)
apply_changed_fields(existing, new_data, changed) ==
    [f \in RowFields |-> IF f \in changed THEN new_data[f] ELSE existing[f]]

\* the state of one call: the session's view of the committed rows (rows), the
\* objects added and not yet flushed (added), the four result lists (created and
\* updated hold positions in added and in rows), and, per candidate in input
\* order, what was decided (decisions)
EmptyImport(db) ==
    [rows |-> db, added |-> <<>>, created |-> <<>>, updated |-> <<>>,
     skipped |-> <<>>, errors |-> <<>>, id_counter |-> 0, decisions |-> <<>>]

NoRow == [f \in RowFields |-> IF f = "id" THEN <<-1, 0>> ELSE None]
NoFound == [raised |-> FALSE, idx |-> 0, key |-> "none"]

\* what was decided for one candidate: the list it went to, the row the lookup
\* chose and by which key, the skip reason or error text, and the local record
\* as the decision found it and as it left it
Decision(kind, found, why, before, after) ==
    [kind |-> kind, idx |-> found.idx, key |-> found.key, reason |-> why,
     before |-> before, after |-> after]

\* changed_fields = get_changed_fields(existing, interpreter_data); the setattr
\* loop; updated.append(existing)
ImportUpdate(acc, data, found) ==
    LET existing == acc.rows[found.idx]
        after == apply_changed_fields(existing, data, get_changed_fields(existing, data))
    IN  [acc EXCEPT !.rows[found.idx] = after,
                    !.updated = Append(@, found.idx),
                    !.decisions = Append(@, Decision("updated", found, "", existing, after))]

\* a bug that would build the identifier from the clock alone
ImportCreate_clock_only(acc, data, ms) ==
    LET new == [f \in RowFields |-> IF f = "id" THEN <<ms, 0>> ELSE data[f]]
    IN  [acc EXCEPT !.added = Append(@, new),
                    !.created = Append(@, Len(acc.added) + 1),
                    !.id_counter = @ + 1,
                    !.decisions = Append(@, Decision("created", NoFound, "", NoRow, new))]

\* new_interpreter = Interpreter(id=f"{ms}_{id_counter}", **interpreter_data);
\* db.add(new_interpreter); created.append(new_interpreter); id_counter += 1
ImportCreate(acc, data, ms) ==
    LET new == [f \in RowFields |-> IF f = "id" THEN <<ms, acc.id_counter>> ELSE data[f]]
    IN  [acc EXCEPT !.added = Append(@, new),
                    !.created = Append(@, Len(acc.added) + 1),
                    !.id_counter = @ + 1,
                    !.decisions = Append(@, Decision("created", NoFound, "", NoRow, new))]

\* a bug that would give up the records created so far in the batch
ImportError_discards_created(acc, candidate, text) ==
    [acc EXCEPT !.errors = Append(@, [record_id |-> candidate["id"], error |-> text]),
                !.added = <<>>,
                !.created = <<>>,
                !.decisions = Append(@, Decision("error", NoFound, text, NoRow, NoRow))]

\* except Exception as e: errors.append({"record_id": ..., "error": str(e)}); continue
ImportError(acc, candidate, text) ==
    [acc EXCEPT !.errors = Append(@, [record_id |-> candidate["id"], error |-> text]),
                !.decisions = Append(@, Decision("error", NoFound, text, NoRow, NoRow))]

\* a bug that would take the candidate's record id over when it skips
ImportSkip_sets_record_id(acc, data, found, why) ==
    [acc EXCEPT !.rows[found.idx].record_id = data.record_id,
                !.skipped = Append(@, [email |-> data.email,
                                       employee_id |-> data.employee_id,
                                       reason |-> why]),
                !.decisions = Append(@, Decision("skipped", found, why,
                                                 acc.rows[found.idx], acc.rows[found.idx]))]

ImportSkip(acc, data, found, why) ==
    [acc EXCEPT !.skipped = Append(@, [email |-> data.email,
                                       employee_id |-> data.employee_id,
                                       reason |-> why]),
                !.decisions = Append(@, Decision("skipped", found, why,
                                                 acc.rows[found.idx], acc.rows[found.idx]))]

\* a bug that would record a skip for a record it has just updated
import_candidate_update_and_skip(acc, candidate, db, update_existing, ms) ==
    LET data == map_zoho_contact_to_interpreter(candidate)
        found == find_existing(db, data)
        existing == acc.rows[found.idx]
    IN  IF ~Truthy(data.contact_name)
        THEN ImportError(acc, candidate, "Missing required field: contact_name")
        ELSE IF found.raised THEN ImportError(acc, candidate, "query raised")
        ELSE IF found.idx # 0
        THEN IF update_existing /\ has_changes(existing, data)
             THEN ImportSkip(ImportUpdate(acc, data, found), data, found,
                             "No changes detected")
             ELSE ImportSkip(acc, data, found,
                    IF update_existing THEN "No changes detected" ELSE "Already exists")
        ELSE ImportCreate(acc, data, ms)

\* the body of the loop over candidates, for one candidate; ms is the clock
\* reading used for the identifier of a created record
import_candidate(acc, candidate, db, update_existing, ms) ==
    LET data == map_zoho_contact_to_interpreter(candidate)
        found == find_existing(db, data)
        existing == acc.rows[found.idx]
    IN  IF ~Truthy(data.contact_name)
        THEN ImportError(acc, candidate, "Missing required field: contact_name")
        ELSE IF found.raised THEN ImportError(acc, candidate, "query raised")
        ELSE IF found.idx # 0
        THEN IF update_existing
             THEN IF has_changes(existing, data)
                  THEN ImportUpdate(acc, data, found)
                  ELSE ImportSkip(acc, data, found, "No changes detected")
             ELSE ImportSkip(acc, data, found, "Already exists")
        ELSE ImportCreate(acc, data, ms)

RECURSIVE import_loop(_, _, _, _, _)
import_loop(acc, candidates, db, update_existing, ms) ==
    IF candidates = <<>> THEN acc
    ELSE import_loop(import_candidate(acc, Head(candidates), db, update_existing, ms),
                     Tail(candidates), db, update_existing, ms)

process_interpreter_import(candidates, db, update_existing, ms) ==
    import_loop(EmptyImport(db), candidates, db, update_existing, ms)

\* db.commit() after an import: the flush raises on a value that cannot be bound
\* and on a primary key that is already taken; the session is then rolled back
CommitRaises(res) ==
    LET all == res.rows \o res.added IN
    \/ \E i \in 1..Len(all) : \E f \in DataFields : all[i][f].k = "obj"
    \/ \E i, j \in 1..Len(all) : i # j /\ all[i]["id"] = all[j]["id"]

CommitStore(db, res) == IF CommitRaises(res) THEN db ELSE res.rows \o res.added

-----------------------------------------------------------------------------
(* Inputs of the reconciliation checks *)

MaxBatchLen == 2

Cand(id, name, email, emp, last) ==
    [EmptyCandidate EXCEPT !["id"] = id, !["Full_Name"] = name, !["Email"] = email,
                           !["Employee_ID"] = emp, !["Last_Name"] = last]

NameA == Str(<<"A">>)
Id1 == Str(<<"1">>)
Id2 == Str(<<"2">>)
MailA == Str(<<"a">>)
MailB == Str(<<"b">>)
EmpE == Str(<<"E">>)
LastX == Str(<<"x">>)
LastXPadded == Str(<<"x", " ">>)
LastY == Str(<<"y">>)
LastNoneText == Str(<<"N", "o", "n", "e">>)
Empty == Str(<<>>)

P1 == Cand(Id1, NameA, MailA, None, LastX)
P2 == Cand(Id1, NameA, MailA, None, LastXPadded)
P3 == Cand(Id1, NameA, MailA, None, Empty)
P4 == Cand(Id2, NameA, MailA, None, LastX)
P5 == Cand(Id2, NameA, MailB, None, LastNoneText)
P6 == Cand(None, NameA, MailA, None, LastY)
P7 == Cand(None, NameA, None, EmpE, LastX)
P8 == Cand(None, NameA, Obj, None, LastX)
P9 == Cand(Id1, NameA, MailB, EmpE, None)
P10 == Cand(None, None, None, None, LastX)
P11 == Cand(None, NameA, Empty, EmpE, Empty)
P12 == Cand(Id2, NameA, MailB, None, Empty)

CandidatePool == {P1, P2, P3, P4, P5, P6, P7, P8, P9, P10, P11, P12}

Batches == UNION { [1..n -> CandidatePool] : n \in 0..MaxBatchLen }

\* the local stores the checks start from: each is what an import of a seed
\* batch into the empty table commits, at clock reading 0
SeedBatches == { <<>>, <<P1>>, <<P1, P5>>, <<P4, P1>>, <<P5, P7>>, <<P6, P9>> }

InitStores ==
    { CommitStore(<<>>, process_interpreter_import(seed, <<>>, TRUE, 0)) :
        seed \in SeedBatches }

NoResult == EmptyImport(<<>>)

-----------------------------------------------------------------------------
(* sync_engine.py: the SyncOperation record of a run *)

Terminal == {"completed", "partial", "failed"}

\* SyncOperation(id=..., trigger_type=..., status=SyncStatus.running), with the
\* column defaults of models.py
NewSyncOperation ==
    [status |-> "running", total_fetched |-> 0, total_created |-> 0, total_updated |-> 0,
     total_skipped |-> 0, total_errors |-> 0, total_synced_to_zoho |-> 0,
     error_message |-> FALSE, completed_at |-> FALSE]

\* no row committed yet
NoSyncRow == [NewSyncOperation EXCEPT !.status = "absent"]

SyIdle ==
    /\ syPc = "off"
    /\ syOp = NewSyncOperation
    /\ syRow = NoSyncRow
    /\ syCands = <<>>
    /\ syRes = EmptyImport(<<>>)
    /\ syIds = <<>>
    /\ syNext = 0
    /\ sySynced = <<>>
    /\ syErrs = <<>>
    /\ syEvents = <<>>
    /\ syWrites = <<>>
    /\ syFaults = 0
    /\ sySent = <<>>
    /\ syReplied = <<>>

-----------------------------------------------------------------------------
(* main.py: the requests that start a sync run *)

ForceRequests == {"f1", "f2"}
RefreshRequests == {"rf"}
Requests == ForceRequests \cup RefreshRequests

TrIdle ==
    /\ is_syncing = FALSE
    /\ trPc = [t \in Requests |-> "off"]
    /\ trOps = <<>>
    /\ trRunRow = [t \in Requests |-> 0]
    /\ trNow = 0
    /\ trSoon = [t \in Requests |-> "no"]
    /\ trGiven = [t \in Requests |-> 0]

-----------------------------------------------------------------------------
(* rate_limiter.py: the callers of a RateLimiter *)

Callers == {"t1", "t2", "t3"}

\* the record of a call of acquire: the time it read, whether it returned None,
\* the wait it returned otherwise, and the timestamps recorded before it
AcquireCall(now, admitted, wait, before) ==
    [now |-> now, admitted |-> admitted, wait |-> wait, before |-> before]

RlIdle ==
    /\ rlNow = 0
    /\ calls = <<>>
    /\ rlLock = "free"
    /\ rlLocal = [t \in Callers |-> [now |-> 0, limited |-> FALSE]]
    /\ rlPc = [t \in Callers |-> "off"]
    /\ rlWake = [t \in Callers |-> 0]
    /\ rlOps = 0
    /\ rlLast = AcquireCall(0, TRUE, 0, <<>>)
    /\ rlAll = <<>>
    /\ rlDenied = <<>>
    /\ rlReturned = {}

-----------------------------------------------------------------------------
(* background_tasks.py: the table of import jobs. The table holds the dicts it
   was given, not copies, and a reader holds the very dict stored under a key
   until the table drops or replaces it. Time is counted in hours. *)

MAX_JOBS_RETENTION == 2

JOB_TTL_HOURS == 24

JobIds == 1..(MAX_JOBS_RETENTION + 2)

MaxJtSets == 4

JtIdle ==
    /\ import_jobs = <<>>
    /\ jtCur = 0
    /\ jtSets = 0
    /\ jtNow = 0
    /\ jtCleaned = FALSE
    /\ jtRemoved = {}
    /\ jtOutside = FALSE
    /\ jtDirty = {}
    /\ jtGot = "none"
    /\ jtStamped = TRUE

-----------------------------------------------------------------------------
(* sync_engine.py: the call of test_sync_single_record *)

\* lines 285-294: the result dict a call starts from; the error is "" for None
\* and the action "none" for None
NewTestResult ==
    [success |-> FALSE, record_fetched |-> FALSE, action_taken |-> "none",
     interpreter_id |-> <<-1, 0>>, changes_detected |-> {}, zoho_updated |-> FALSE,
     error |-> ""]

NoArgs == [record_id |-> None, email |-> None]

TmIdle ==
    /\ tmPc = "off"
    /\ tmArgs = NoArgs
    /\ tmRecord = EmptyCandidate
    /\ tmResult = NewTestResult
    /\ tmDecision = Decision("none", NoFound, "", NoRow, NoRow)
    /\ tmEvents = <<>>
    /\ tmStore0 = <<>>
    /\ tmOutcome = "none"

\* the counts of a summary: total, created, updated, skipped, errors
NoCounts == [total |-> 0, created |-> 0, updated |-> 0, skipped |-> 0, errors |-> 0]

BgIdle ==
    /\ bgPc = "off"
    /\ bgJob = 0
    /\ bgValid = TRUE
    /\ bgDetail = ""
    /\ bgCands = <<>>
    /\ bgRes = EmptyImport(<<>>)
    /\ bgStore0 = <<>>
    /\ bgWrites = <<>>
    /\ bgResults = NoCounts
    /\ bgEvents = <<>>

AppIdle == TmIdle /\ BgIdle

LibIdle == RlIdle /\ JtIdle /\ AppIdle

-----------------------------------------------------------------------------
(* The reconciliation harness: an import endpoint (main.py, import_zoho_candidates)
   runs process_interpreter_import on a batch and commits; the same batch is then
   imported a second time. *)

RcInit ==
    /\ store \in InitStores
    /\ rcPhase = "idle"
    /\ rcBatch = <<>>
    /\ rcUpd = TRUE
    /\ rcStore0 = <<>>
    /\ rcRes = NoResult
    /\ rcRes1 = NoResult
    /\ rcStore1 = <<>>
    /\ rcCommitted = FALSE
    /\ rcCommitted1 = FALSE
    /\ rcNow = 0

ChIdle ==
    /\ chExisting = NoRow
    /\ chNew = [f \in DataFields |-> None]
    /\ chPc = "off"
    /\ chHas = FALSE
    /\ chFields = {}

\* result = process_interpreter_import(candidates, db, update_existing); db.commit()
\* (db.rollback() when the commit raises)
ImportPass1(batch, upd, dt) ==
    /\ rcPhase = "idle"
    /\ \E res \in {process_interpreter_import(batch, store, upd, rcNow + dt)} :
           /\ rcNow' = rcNow + dt
           /\ rcBatch' = batch
           /\ rcUpd' = upd
           /\ rcStore0' = store
           /\ rcRes' = res
           /\ rcRes1' = res
           /\ rcCommitted' = ~CommitRaises(res)
           /\ rcCommitted1' = ~CommitRaises(res)
           /\ store' = CommitStore(store, res)
           /\ rcStore1' = CommitStore(store, res)
    /\ rcPhase' = "pass1"
    /\ UNCHANGED <<chVars, syVars, trVars, libVars>>

\* the same request again, with no other change to the store in between
ImportPass2(dt) ==
    /\ rcPhase = "pass1"
    /\ \E res \in {process_interpreter_import(rcBatch, store, rcUpd, rcNow + dt)} :
           /\ rcNow' = rcNow + dt
           /\ rcStore0' = store
           /\ rcRes' = res
           /\ rcCommitted' = ~CommitRaises(res)
           /\ store' = CommitStore(store, res)
    /\ rcPhase' = "pass2"
    /\ UNCHANGED <<rcBatch, rcUpd, rcRes1, rcStore1, rcCommitted1, chVars, syVars, trVars, libVars>>

\* each request is served a millisecond after the previous one
RcNext ==
    \/ \E batch \in Batches, upd \in BOOLEAN : ImportPass1(batch, upd, 1)
    \/ ImportPass2(1)

ReconInit == RcInit /\ ChIdle /\ SyIdle /\ TrIdle /\ LibIdle

SpecRecon == ReconInit /\ [][RcNext]_vars

-----------------------------------------------------------------------------
(* The mapping harness: the import endpoint on a batch of one candidate, drawn
   from candidates that vary the fields the mapping derives (the display name
   and the two rates). *)

Rate65 == Str(<<"0", ".", "6", "5">>)
Rate40 == Str(<<"4", "0">>)

MapCandidates ==
    { [EmptyCandidate EXCEPT !["id"] = i, !["Full_Name"] = n, !["Email"] = e,
                             !["Agreed_Rate"] = a, !["Rate_Hour"] = h] :
        i \in {None, Id1}, n \in {None, Empty, NameA}, e \in {None, MailA, MailB},
        a \in {None, Empty, Rate65, LastNoneText}, h \in {None, Rate65, Rate40} }

MapNext == \E c \in MapCandidates, upd \in BOOLEAN : ImportPass1(<<c>>, upd, 1)

SpecMap == ReconInit /\ [][MapNext]_vars

-----------------------------------------------------------------------------
(* The change-detection harness: has_changes and get_changed_fields applied to
   a local record and a candidate's mapped data. *)

ChValues ==
    { None, Empty, Str(NoneText), Str(<<"N", "o", "n", "e">>), Str(<<"N", "O", "N", "E">>),
      Str(<<"a">>), Str(<<" ", "a", " ">>), Str(<<"b">>), Str(<<" ">>) }

ChRateValues == { None, Empty, Str(<<"5">>) }

ChIdValues == { None, Id1, Id2 }

\* local records: a record created from a candidate holds the candidate's raw values
ChExistingSet ==
    { [NoRow EXCEPT !["id"] = <<0, 0>>, !["contact_name"] = NameA, !["email"] = e,
                    !["rate_per_hour"] = r, !["record_id"] = i] :
        e \in ChValues, r \in ChRateValues, i \in ChIdValues }

ChNewSet ==
    { [[f \in DataFields |-> None] EXCEPT !["contact_name"] = NameA, !["email"] = e,
                    !["rate_per_hour"] = r, !["record_id"] = i] :
        e \in ChValues, r \in ChRateValues \ {None}, i \in ChIdValues }

ChInit ==
    /\ chExisting \in ChExistingSet
    /\ chNew \in ChNewSet
    /\ chPc = "input"
    /\ chHas = FALSE
    /\ chFields = {}

RcIdle ==
    /\ rcPhase = "off"
    /\ rcBatch = <<>>
    /\ rcUpd = TRUE
    /\ rcStore0 = <<>>
    /\ rcRes = NoResult
    /\ rcRes1 = NoResult
    /\ rcStore1 = <<>>
    /\ rcCommitted = FALSE
    /\ rcCommitted1 = FALSE
    /\ rcNow = 0

DetectChanges ==
    /\ chPc = "input"
    /\ chHas' = has_changes(chExisting, chNew)
    /\ chFields' = get_changed_fields(chExisting, chNew)
    /\ chPc' = "done"
    /\ UNCHANGED <<chExisting, chNew, store, rcVars, syVars, trVars, libVars>>

ChNext == DetectChanges

ChangeInit == ChInit /\ store = <<>> /\ RcIdle /\ SyIdle /\ TrIdle /\ LibIdle

SpecChange == ChangeInit /\ [][ChNext]_vars

-----------------------------------------------------------------------------
(* sync_engine.py: run_sync, one action per step. A step that talks to the
   database or to the CRM either succeeds or raises; MaxFaults bounds how many
   steps of one run raise. A commit that raises rolls the session back: the
   SyncOperation object is expired and reads as the committed row again. *)

MaxFaults == 2

\* batch_size = 100 in the source; scaled so that a run of a few candidates
\* spans more than one write-back batch
batch_size == 2

\* the clock reading of the run, in the identifiers of the records it creates
SyncClock == 1

P13 == Cand(Id2, NameA, MailB, None, Obj)

\* the record of P1 with another last name
P16 == Cand(Id1, NameA, MailA, None, LastY)

\* what zoho_client.get_all_records can return
SyncFetches ==
    { <<>>, <<P1>>, <<P10>>, <<P1, P8>>, <<P13>>, <<P1, P4, P9>>, <<P5, P12, P1>>,
      <<P9, P4>>, <<P16, P5>> }

MayRaise == syFaults < MaxFaults

\* db.commit() succeeded: the row now reads as the object
Committed(op) ==
    /\ syOp' = op
    /\ syRow' = op
    /\ syWrites' = IF op # syRow THEN Append(syWrites, op) ELSE syWrites

\* a step of the try block raised: control goes to the except clause of run_sync
RaisedInTry ==
    /\ syPc' = "handler"
    /\ syOp' = syRow
    /\ syFaults' = syFaults + 1
    /\ UNCHANGED <<rcVars, chVars, trVars, libVars, syRow, syWrites>>

\* logger.info / logger.warning / logger.error: db.add(log); db.commit()
LogWrite(pc, next) ==
    /\ syPc = pc
    /\ \/ /\ syPc' = next
          /\ UNCHANGED <<syOp, syRow, syWrites, syFaults>>
       \/ /\ MayRaise
          /\ RaisedInTry
    /\ UNCHANGED <<rcVars, chVars, trVars, libVars, store, syCands, syRes, syIds, syNext, sySynced, syErrs, syEvents, sySent, syReplied>>

\* a bug that would add the row to the session and commit it with the first
\* later commit
RunCreate_uncommitted ==
    /\ syPc = "start"
    /\ syPc' = "log_start"
    /\ UNCHANGED <<rcVars, chVars, trVars, libVars, store, syOp, syRow, syWrites, syFaults,
                   syCands, syRes, syIds, syNext, sySynced, syErrs, syEvents, sySent, syReplied>>

\* lines 73-85: the row is created and committed before the try block is entered
RunCreate ==
    /\ syPc = "start"
    /\ \/ /\ Committed(NewSyncOperation)
          /\ syPc' = "log_start"
          /\ UNCHANGED syFaults
       \/ /\ MayRaise
          /\ syPc' = "raised"
          /\ syFaults' = syFaults + 1
          /\ UNCHANGED <<syOp, syRow, syWrites>>
    /\ UNCHANGED <<rcVars, chVars, trVars, libVars, store, syCands, syRes, syIds, syNext, sySynced, syErrs, syEvents, sySent, syReplied>>

\* line 88
RunLogStart == LogWrite("log_start", "rate")

\* line 91: zoho_rate_limiter.wait_if_needed()
RunRateLimit ==
    /\ syPc = "rate"
    /\ syPc' = "log_fetching"
    /\ syEvents' = Append(syEvents, "rate")
    /\ UNCHANGED <<sySent, syReplied, rcVars, chVars, trVars, libVars, store, syOp, syRow, syCands, syRes, syIds, syNext, sySynced, syErrs,
                   syWrites, syFaults>>

\* lines 94-103
RunLogFetching == LogWrite("log_fetching", "fetch")

\* zoho_client.get_records: the size of a page, scaled from 200
per_page == 2

\* zoho_client.get_all_records: one request per page until a page comes back
\* empty or without more_records
Pages(n) == IF n = 0 THEN 1 ELSE (n + per_page - 1) \div per_page

\* the requests of k pages
PageRequests(k) == [i \in 1..k |-> "fetch"]

\* a bug that would take a fetch that raised for a fetch of no records
RunFetch_swallows ==
    /\ syPc = "fetch"
    /\ \/ /\ \E c \in SyncFetches :
                /\ syCands' = c
                /\ syEvents' = syEvents \o PageRequests(Pages(Len(c))) \o <<"fetched">>
          /\ syPc' = "commit_fetched"
          /\ UNCHANGED <<syOp, syRow, syWrites, syFaults>>
       \/ /\ MayRaise
          /\ syFaults' = syFaults + 1
          /\ \E c \in SyncFetches : \E k \in 1..Pages(Len(c)) :
                syEvents' = syEvents \o PageRequests(k)
          /\ syPc' = "commit_fetched"
          /\ UNCHANGED <<syCands, syOp, syRow, syWrites>>
    /\ UNCHANGED <<sySent, syReplied, rcVars, chVars, trVars, libVars, store, syRes, syIds, syNext, sySynced, syErrs>>

\* lines 108-111: candidates = zoho_client.get_all_records(...), which requests
\* page after page; a request may raise
RunFetch ==
    /\ syPc = "fetch"
    /\ \/ /\ \E c \in SyncFetches :
                /\ syCands' = c
                /\ syEvents' = syEvents \o PageRequests(Pages(Len(c))) \o <<"fetched">>
          /\ syPc' = "commit_fetched"
          /\ UNCHANGED <<syOp, syRow, syWrites, syFaults>>
       \/ /\ MayRaise
          /\ RaisedInTry
          /\ \E c \in SyncFetches : \E k \in 1..Pages(Len(c)) :
                syEvents' = syEvents \o PageRequests(k)
          /\ UNCHANGED syCands
    /\ UNCHANGED <<sySent, syReplied, rcVars, chVars, trVars, libVars, store, syRes, syIds, syNext, sySynced, syErrs>>

\* lines 113-114: sync_op.total_fetched = len(candidates); db.commit()
RunCommitFetched ==
    /\ syPc = "commit_fetched"
    /\ \/ /\ Committed([syOp EXCEPT !.total_fetched = Len(syCands)])
          /\ syPc' = "log_fetched"
          /\ UNCHANGED syFaults
       \/ /\ MayRaise
          /\ RaisedInTry
    /\ UNCHANGED <<rcVars, chVars, trVars, libVars, store, syCands, syRes, syIds, syNext, sySynced, syErrs, syEvents, sySent, syReplied>>

\* a bug that would leave out the empty-result branch
RunLogFetched_no_empty_branch == LogWrite("log_fetched", "log_processing")

\* lines 116-122
RunLogFetched ==
    LogWrite("log_fetched", IF syCands = <<>> THEN "finish_empty" ELSE "log_processing")

\* lines 122-126: if not candidates: status = completed; db.commit()
RunFinishEmpty ==
    /\ syPc = "finish_empty"
    /\ \/ /\ Committed([syOp EXCEPT !.status = "completed", !.completed_at = TRUE])
          /\ syPc' = "log_empty"
          /\ UNCHANGED syFaults
       \/ /\ MayRaise
          /\ RaisedInTry
    /\ UNCHANGED <<rcVars, chVars, trVars, libVars, store, syCands, syRes, syIds, syNext, sySynced, syErrs, syEvents, sySent, syReplied>>

\* lines 127-128: logger.info(...); return sync_op
RunLogEmpty == LogWrite("log_empty", "returned_empty")

\* line 131
RunLogProcessing == LogWrite("log_processing", "process")


\* a bug that would go on to the write-back with the records created and
\* updated still in the session, not committed
RunProcess_uncommitted ==
    /\ syPc = "process"
    /\ \E res \in {process_interpreter_import(syCands, store, TRUE, SyncClock)} :
          /\ syRes' = res
          /\ syEvents' = Append(syEvents, "reconcile")
          /\ \/ /\ ~CommitRaises(res)
                /\ Committed([syOp EXCEPT !.total_created = Len(res.created),
                                          !.total_updated = Len(res.updated),
                                          !.total_skipped = Len(res.skipped),
                                          !.total_errors = Len(res.errors)])
                /\ UNCHANGED store
                /\ syPc' = "log_results"
                /\ UNCHANGED syFaults
             \/ /\ CommitRaises(res) \/ MayRaise
                /\ syPc' = "handler"
                /\ syOp' = syRow
                /\ syFaults' = IF CommitRaises(res) THEN syFaults ELSE syFaults + 1
                /\ UNCHANGED <<store, syRow, syWrites>>
    /\ UNCHANGED <<sySent, syReplied, rcVars, chVars, trVars, libVars, syCands, syIds, syNext, sySynced, syErrs>>

\* lines 133-139: result = process_interpreter_import(candidates, db, True); the four
\* counts; db.commit(), which also flushes the records created and updated
RunProcess ==
    /\ syPc = "process"
    /\ \E res \in {process_interpreter_import(syCands, store, TRUE, SyncClock)} :
          /\ syRes' = res
          /\ syEvents' = Append(syEvents, "reconcile")
          /\ \/ /\ ~CommitRaises(res)
                /\ Committed([syOp EXCEPT !.total_created = Len(res.created),
                                          !.total_updated = Len(res.updated),
                                          !.total_skipped = Len(res.skipped),
                                          !.total_errors = Len(res.errors)])
                /\ store' = CommitStore(store, res)
                /\ syPc' = "log_results"
                /\ UNCHANGED syFaults
             \/ /\ CommitRaises(res) \/ MayRaise
                /\ syPc' = "handler"
                /\ syOp' = syRow
                /\ syFaults' = IF CommitRaises(res) THEN syFaults ELSE syFaults + 1
                /\ UNCHANGED <<store, syRow, syWrites>>
    /\ UNCHANGED <<sySent, syReplied, rcVars, chVars, trVars, libVars, syCands, syIds, syNext, sySynced, syErrs>>

\* a write-back that would take the updated records before the created ones
ProcessedObjects_updated_first(res) ==
    [i \in 1..(Len(res.created) + Len(res.updated)) |->
        IF i <= Len(res.updated) THEN res.rows[res.updated[i]]
        ELSE res.added[res.created[i - Len(res.updated)]]]

\* the objects of result["created"] + result["updated"]
ProcessedObjects(res) ==
    [i \in 1..(Len(res.created) + Len(res.updated)) |->
        IF i <= Len(res.created) THEN res.added[res.created[i]]
        ELSE res.rows[res.updated[i - Len(res.created)]]]

\* lines 168-171: the record ids of the objects that have one
RECURSIVE processed_record_ids(_)
processed_record_ids(objs) ==
    IF objs = <<>> THEN <<>>
    ELSE IF Truthy(Head(objs).record_id)
         THEN <<Head(objs).record_id>> \o processed_record_ids(Tail(objs))
         ELSE processed_record_ids(Tail(objs))

\* lines 142-171: the per-record log lines, then the list of ids to write back
RunLogResults ==
    /\ syPc = "log_results"
    /\ \/ /\ syPc' = "writeback"
          /\ syIds' = processed_record_ids(ProcessedObjects(syRes))
          /\ syNext' = 0
          /\ UNCHANGED <<syOp, syRow, syWrites, syFaults>>
       \/ /\ MayRaise
          /\ RaisedInTry
          /\ UNCHANGED <<syIds, syNext>>
    /\ UNCHANGED <<rcVars, chVars, trVars, libVars, store, syCands, syRes, sySynced, syErrs, syEvents, sySent, syReplied>>

\* processed_record_ids[i:i+batch_size]
BatchIds == SubSeq(syIds, syNext + 1,
                   IF syNext + batch_size < Len(syIds) THEN syNext + batch_size ELSE Len(syIds))

\* the items of a response up to and including position n, in order: SUCCESS items
\* go to successfully_synced, the others to sync_errors
RECURSIVE ItemsSynced(_, _, _)
ItemsSynced(ids, failing, n) ==
    IF n = 0 THEN <<>>
    ELSE ItemsSynced(ids, failing, n - 1) \o (IF n \in failing THEN <<>> ELSE <<ids[n]>>)

RECURSIVE ItemsFailed(_, _, _)
ItemsFailed(ids, failing, n) ==
    IF n = 0 THEN <<>>
    ELSE ItemsFailed(ids, failing, n - 1) \o (IF n \in failing THEN <<ids[n]>> ELSE <<>>)

\* lines 175-214, one pass of the loop: the rate limiter, the bulk update, the
\* items of the response; the except clause of the batch
\* zoho_client.bulk_update_records as seen by the loop: the request raised, the
\* response had no "data", or it carried one item per record of which the ones
\* at the failing positions were not SUCCESS
Reply(kind, failing) == [kind |-> kind, failing |-> failing]

RunWriteBackBatch ==
    /\ syPc = "writeback"
    /\ syNext < Len(syIds)
    /\ syNext' = syNext + batch_size
    /\ syEvents' = syEvents \o <<"rate", "bulk">>
    /\ sySent' = Append(sySent, BatchIds)
    /\ \/ \* the response carries one item per record; failing are the non-SUCCESS ones
          \E failing \in SUBSET (1..Len(BatchIds)) :
             /\ sySynced' = sySynced \o ItemsSynced(BatchIds, failing, Len(BatchIds))
             /\ syReplied' = Append(syReplied, Reply("items", failing))
             /\ syErrs' = syErrs \o ItemsFailed(BatchIds, failing, Len(BatchIds))
             /\ syPc' = "writeback"
             /\ UNCHANGED <<syOp, syRow, syWrites, syFaults>>
       \/ \* the response carries no "data"
          /\ syPc' = "writeback"
          /\ syReplied' = Append(syReplied, Reply("no data", {}))
          /\ UNCHANGED <<sySynced, syErrs, syOp, syRow, syWrites, syFaults>>
       \/ \* the request raises; the except clause logs and fails the whole batch
          /\ MayRaise
          /\ syFaults' = syFaults + 1
          /\ syErrs' = syErrs \o BatchIds
          /\ syReplied' = Append(syReplied, Reply("raised", {}))
          /\ syPc' = "writeback"
          /\ UNCHANGED <<sySynced, syOp, syRow, syWrites>>
       \/ \* the log line of the first failing item raises inside the inner try
          \E failing \in (SUBSET (1..Len(BatchIds))) \ {{}} :
             LET k == Lowest(failing) IN
             /\ MayRaise
             /\ syFaults' = syFaults + 1
             /\ sySynced' = sySynced \o ItemsSynced(BatchIds, failing, k)
             /\ syReplied' = Append(syReplied, Reply("items", failing))
             /\ syErrs' = syErrs \o <<BatchIds[k]>> \o BatchIds
             /\ syPc' = "writeback"
             /\ UNCHANGED <<syOp, syRow, syWrites>>
       \/ \* the request, or the log line of an item, raises and the log line of the
          \* except clause raises as well
          /\ syFaults + 1 < MaxFaults
          /\ syFaults' = syFaults + 2
          /\ \E failing \in SUBSET (1..Len(BatchIds)) :
                syReplied' = Append(syReplied,
                    IF failing = {} THEN Reply("raised", {}) ELSE Reply("items", failing))
          /\ syPc' = "handler"
          /\ syOp' = syRow
          /\ UNCHANGED <<sySynced, syErrs, syRow, syWrites>>
    /\ UNCHANGED <<rcVars, chVars, trVars, libVars, store, syCands, syRes, syIds>>

\* lines 216-217: sync_op.total_synced_to_zoho = len(successfully_synced); db.commit()
RunCommitSynced ==
    /\ syPc = "writeback"
    /\ syNext >= Len(syIds)
    /\ \/ /\ Committed([syOp EXCEPT !.total_synced_to_zoho = Len(sySynced)])
          /\ syPc' = "log_synced"
          /\ UNCHANGED syFaults
       \/ /\ MayRaise
          /\ RaisedInTry
    /\ UNCHANGED <<rcVars, chVars, trVars, libVars, store, syCands, syRes, syIds, syNext, sySynced, syErrs, syEvents, sySent, syReplied>>

\* lines 219-223
RunLogSynced == LogWrite("log_synced", "finalize")

\* a bug that would let reconciliation errors pass as a completed run
final_status_write_back_only(sync_errors, errors) ==
    IF sync_errors # <<>> THEN "partial" ELSE "completed"

\* lines 226-229: if sync_errors or result["errors"]: partial, else completed
final_status(sync_errors, errors) ==
    IF sync_errors # <<>> \/ errors # <<>> THEN "partial" ELSE "completed"

\* lines 226-233: the final status; completed_at; db.commit()
RunFinalize ==
    /\ syPc = "finalize"
    /\ \/ /\ Committed([syOp EXCEPT !.status = final_status(syErrs, syRes.errors),
                                    !.completed_at = TRUE])
          /\ syPc' = "log_final"
          /\ UNCHANGED syFaults
       \/ /\ MayRaise
          /\ RaisedInTry
    /\ UNCHANGED <<rcVars, chVars, trVars, libVars, store, syCands, syRes, syIds, syNext, sySynced, syErrs, syEvents, sySent, syReplied>>

\* lines 235-245: logger.info(...); return sync_op
RunLogFinal == LogWrite("log_final", "returned_final")

\* lines 247-256: except Exception: status = failed, error_message; db.commit()
RunHandler ==
    /\ syPc = "handler"
    /\ \/ /\ Committed([syOp EXCEPT !.status = "failed", !.error_message = TRUE,
                                    !.completed_at = TRUE])
          /\ syPc' = "handler_log"
          /\ UNCHANGED syFaults
       \/ /\ MayRaise
          /\ syPc' = "raised"
          /\ syOp' = syRow
          /\ syFaults' = syFaults + 1
          /\ UNCHANGED <<syRow, syWrites>>
    /\ UNCHANGED <<rcVars, chVars, trVars, libVars, store, syCands, syRes, syIds, syNext, sySynced, syErrs, syEvents, sySent, syReplied>>

\* lines 258-263: logger.error(...); return sync_op
RunHandlerLog ==
    /\ syPc = "handler_log"
    /\ \/ /\ syPc' = "returned_failed"
          /\ UNCHANGED syFaults
       \/ /\ MayRaise
          /\ syPc' = "raised"
          /\ syFaults' = syFaults + 1
    /\ UNCHANGED <<rcVars, chVars, trVars, libVars, store, syOp, syRow, syCands, syRes, syIds, syNext, sySynced, syErrs,
                   syEvents, sySent, syReplied, syWrites>>

SyInit ==
    /\ store \in InitStores
    /\ syPc = "start"
    /\ syOp = NewSyncOperation
    /\ syRow = NoSyncRow
    /\ syCands = <<>>
    /\ syRes = NoResult
    /\ syIds = <<>>
    /\ syNext = 0
    /\ sySynced = <<>>
    /\ syErrs = <<>>
    /\ syEvents = <<>>
    /\ syWrites = <<>>
    /\ syFaults = 0
    /\ sySent = <<>>
    /\ syReplied = <<>>

SyNext ==
    \/ RunCreate \/ RunLogStart \/ RunRateLimit \/ RunLogFetching \/ RunFetch
    \/ RunCommitFetched \/ RunLogFetched \/ RunFinishEmpty \/ RunLogEmpty
    \/ RunLogProcessing \/ RunProcess \/ RunLogResults \/ RunWriteBackBatch
    \/ RunCommitSynced \/ RunLogSynced \/ RunFinalize \/ RunLogFinal
    \/ RunHandler \/ RunHandlerLog

SyncInit == SyInit /\ RcIdle /\ ChIdle /\ TrIdle /\ LibIdle

SpecSync == SyncInit /\ [][SyNext]_vars

-----------------------------------------------------------------------------
(* main.py: force_sync and its background task, refresh_database. The endpoints
   are plain functions, so the server runs each request on a thread of its pool
   and requests interleave between any two statements. run_sync is taken here by
   its two ends: the commit of its row (line 82) and its return or raise. *)

MaxTime == 9

\* min_interval = timedelta(minutes=5)
min_interval == 5

Modules == {"Contacts", "Leads", "Deals"}

SetPc(t, pc) == trPc' = [trPc EXCEPT ![t] = pc]

\* a new row of sync_operations: status running, completed_at NULL
RunningRow == [status |-> "running", completed |-> FALSE, completed_at |-> 0]

\* some run completed less than min_interval ago
RunJustCompleted ==
    \E i \in 1..Len(trOps) : trOps[i].completed /\ trNow - trOps[i].completed_at < min_interval

\* lines 1622-1633: the unlocked read of the flag, then the module check
ForceCheck(t) ==
    /\ trPc[t] = "check"
    /\ \E module \in Modules :
          SetPc(t, IF is_syncing THEN "rejected_409"
                   ELSE IF module \notin {"Contacts", "Leads"} THEN "rejected_400"
                   ELSE "cooldown")
    /\ trSoon' = [trSoon EXCEPT ![t] = IF RunJustCompleted THEN "came" ELSE "no"]
    /\ UNCHANGED <<store, rcVars, chVars, syVars, libVars, is_syncing, trOps, trRunRow, trNow, trGiven>>

\* lines 1636-1647: the most recently created row, if it has a completed_at
TooRecent ==
    /\ trOps # <<>>
    /\ trOps[Len(trOps)].completed
    /\ trNow - trOps[Len(trOps)].completed_at < min_interval

ForceCooldown(t) ==
    /\ trPc[t] = "cooldown"
    /\ SetPc(t, IF TooRecent THEN "rejected_429" ELSE "set_flag")
    /\ trSoon' = [trSoon EXCEPT ![t] = IF @ = "came" /\ ~TooRecent /\ RunJustCompleted
                                       THEN "passed" ELSE @]
    /\ UNCHANGED <<store, rcVars, chVars, syVars, libVars, is_syncing, trOps, trRunRow, trNow, trGiven>>

\* lines 1651-1652: with _sync_lock: _is_syncing = True
ForceSetFlag(t) ==
    /\ trPc[t] = "set_flag"
    /\ is_syncing' = TRUE
    /\ SetPc(t, "add_task")
    /\ UNCHANGED <<store, rcVars, chVars, syVars, libVars, trOps, trRunRow, trNow, trSoon, trGiven>>

\* lines 1670-1687: the task is queued and a row of the endpoint's own is
\* committed; when the commit raises the flag is cleared and no task runs
ForceAddTask(t) ==
    /\ trPc[t] = "add_task"
    /\ \/ /\ trOps' = Append(trOps, RunningRow)
          /\ trGiven' = [trGiven EXCEPT ![t] = Len(trOps) + 1]
          /\ SetPc(t, "queued")
          /\ UNCHANGED is_syncing
       \/ /\ is_syncing' = FALSE
          /\ SetPc(t, "error_500")
          /\ UNCHANGED <<trOps, trGiven>>
    /\ UNCHANGED <<store, rcVars, chVars, syVars, libVars, trRunRow, trNow, trSoon>>

\* run_sync lines 73-83, called at line 1662 or line 1948: the row of the run is
\* committed, or the commit raises and so does run_sync
RunSyncEnter(t, from) ==
    /\ trPc[t] = from
    /\ \/ /\ trOps' = Append(trOps, RunningRow)
          /\ trRunRow' = [trRunRow EXCEPT ![t] = Len(trOps) + 1]
          /\ SetPc(t, "in_run_sync")
       \/ /\ SetPc(t, "run_sync_raised")
          /\ UNCHANGED <<trOps, trRunRow>>

\* run_sync lines 87-263: the run ends with a terminal status committed, or an
\* exception leaves run_sync with the row as the last commit left it
RunSyncLeave(t) ==
    /\ trPc[t] = "in_run_sync"
    /\ \/ \E status \in Terminal :
             /\ trOps' = [trOps EXCEPT ![trRunRow[t]] =
                            [status |-> status, completed |-> TRUE, completed_at |-> trNow]]
             /\ \/ SetPc(t, "run_sync_returned")
                \/ status = "failed" /\ SetPc(t, "run_sync_raised")
       \/ /\ SetPc(t, "run_sync_raised")
          /\ UNCHANGED trOps

\* line 1662 in the background task, first half
BackgroundStart(t) ==
    /\ t \in ForceRequests
    /\ RunSyncEnter(t, "queued")
    /\ UNCHANGED <<store, rcVars, chVars, syVars, libVars, is_syncing, trNow, trSoon, trGiven>>

\* line 1662 in the background task, second half
BackgroundRun(t) ==
    /\ t \in ForceRequests
    /\ RunSyncLeave(t)
    /\ UNCHANGED <<store, rcVars, chVars, syVars, libVars, is_syncing, trRunRow, trNow, trSoon, trGiven>>

\* a bug that would clear the flag after run_sync only when it returned
BackgroundRelease_on_return_only(t) ==
    /\ t \in ForceRequests
    /\ trPc[t] \in {"run_sync_returned", "run_sync_raised"}
    /\ is_syncing' = (IF trPc[t] = "run_sync_returned" THEN FALSE ELSE is_syncing)
    /\ SetPc(t, "done")
    /\ UNCHANGED <<store, rcVars, chVars, syVars, libVars, trOps, trRunRow, trNow, trSoon, trGiven>>

\* lines 1663-1668: finally: with _sync_lock: _is_syncing = False
BackgroundRelease(t) ==
    /\ t \in ForceRequests
    /\ trPc[t] \in {"run_sync_returned", "run_sync_raised"}
    /\ is_syncing' = FALSE
    /\ SetPc(t, "done")
    /\ UNCHANGED <<store, rcVars, chVars, syVars, libVars, trOps, trRunRow, trNow, trSoon, trGiven>>

\* lines 1906-1944: the backup, then clear_all_interpreters; either may raise
RefreshClear(t) ==
    /\ t \in RefreshRequests
    /\ trPc[t] = "backup"
    /\ \/ /\ store' = <<>>
          /\ SetPc(t, "sync")
       \/ /\ SetPc(t, "error_500")
          /\ UNCHANGED store
    /\ UNCHANGED <<rcVars, chVars, syVars, libVars, is_syncing, trOps, trRunRow, trNow, trSoon, trGiven>>

\* line 1948, first half: run_sync is called with no look at the flag
RefreshStart(t) ==
    /\ t \in RefreshRequests
    /\ RunSyncEnter(t, "sync")
    /\ UNCHANGED <<store, rcVars, chVars, syVars, libVars, is_syncing, trNow, trSoon, trGiven>>

\* line 1948, second half
RefreshRun(t) ==
    /\ t \in RefreshRequests
    /\ RunSyncLeave(t)
    /\ UNCHANGED <<store, rcVars, chVars, syVars, libVars, is_syncing, trRunRow, trNow, trSoon, trGiven>>

\* lines 1955-2001, or the except clause of lines 1975-1984
RefreshRespond(t) ==
    /\ t \in RefreshRequests
    /\ trPc[t] \in {"run_sync_returned", "run_sync_raised"}
    /\ SetPc(t, IF trPc[t] = "run_sync_returned" THEN "done" ELSE "error_500")
    /\ UNCHANGED <<store, rcVars, chVars, syVars, libVars, is_syncing, trOps, trRunRow, trNow, trSoon, trGiven>>

\* time passes: the clock is read only against min_interval, so it moves by that
Tick ==
    /\ trNow + min_interval <= MaxTime
    /\ trNow' = trNow + min_interval
    /\ UNCHANGED <<store, rcVars, chVars, syVars, libVars, is_syncing, trPc, trOps, trRunRow, trSoon, trGiven>>

\* the requests arrive: each is at its first statement
TrInit ==
    /\ store = CommitStore(<<>>, process_interpreter_import(<<P1>>, <<>>, TRUE, 0))
    /\ is_syncing = FALSE
    /\ trPc = [t \in Requests |-> IF t \in ForceRequests THEN "check" ELSE "backup"]
    /\ trOps = <<>>
    /\ trRunRow = [t \in Requests |-> 0]
    /\ trNow = 0
    /\ trSoon = [t \in Requests |-> "no"]
    /\ trGiven = [t \in Requests |-> 0]

TriggerInit == TrInit /\ RcIdle /\ ChIdle /\ SyIdle /\ LibIdle

TrNext ==
    \/ \E t \in Requests :
          \/ ForceCheck(t) \/ ForceCooldown(t) \/ ForceSetFlag(t) \/ ForceAddTask(t)
          \/ BackgroundStart(t) \/ BackgroundRun(t) \/ BackgroundRelease(t)
          \/ RefreshClear(t) \/ RefreshStart(t) \/ RefreshRun(t) \/ RefreshRespond(t)
    \/ Tick

SpecTrigger == TriggerInit /\ [][TrNext]_vars

-----------------------------------------------------------------------------
(* rate_limiter.py: RateLimiter.acquire and wait_if_needed, called by several
   threads. Time is counted in ticks; max_calls and time_window are scaled from
   the 10 calls in 10 seconds of the global limiter. acquire is taken in two
   steps, both inside "with self._lock": the clock read, the purge and the test
   of the limit, then the append or the wait time. *)

max_calls == 2

time_window == 2

MaxRlTime == 4

MaxRlOps == 4

\* while self.calls and self.calls[0] < now - self.time_window: popleft()
RECURSIVE purge(_, _)
purge(c, now) ==
    IF c # <<>> /\ Head(c) < now - time_window THEN purge(Tail(c), now) ELSE c

\* a bug that would run the body of acquire without the lock
lock_not_needed(t) == TRUE

\* with self._lock: the caller enters when no one holds the lock
lock_available(t) == rlLock = "free"

\* max(0, wait_time)
Max0(x) == IF x > 0 THEN x ELSE 0

\* lines 40-48: the lock, now = time.time(), the purge, the test of the limit
AcquireEnter(t, from, to) ==
    /\ rlPc[t] = from
    /\ lock_available(t)
    /\ rlLock' = t
    /\ calls' = purge(calls, rlNow)
    /\ rlLocal' = [rlLocal EXCEPT ![t] =
                     [now |-> rlNow, limited |-> Len(purge(calls, rlNow)) >= max_calls]]
    /\ rlPc' = [rlPc EXCEPT ![t] = to]
    /\ UNCHANGED <<rlNow, rlWake, rlLast, rlAll, rlDenied, rlReturned>>

\* the wait time of lines 50-52
wait_time(t) == Max0(time_window - (rlLocal[t].now - calls[1]))

\* lines 48-56: the wait time is returned, or the call is recorded and None is
\* returned; the lock is released
AcquireBody(t) ==
    /\ rlLock' = "free"
    /\ IF rlLocal[t].limited
       THEN /\ rlLast' = AcquireCall(rlLocal[t].now, FALSE, wait_time(t), rlAll)
            /\ rlDenied' = Append(rlDenied, wait_time(t))
            /\ UNCHANGED <<calls, rlAll>>
       ELSE /\ calls' = Append(calls, rlLocal[t].now)
            /\ rlAll' = Append(rlAll, rlLocal[t].now)
            /\ rlLast' = AcquireCall(rlLocal[t].now, TRUE, 0, rlAll)
            /\ UNCHANGED rlDenied

Others == <<store, rcVars, chVars, syVars, trVars, jtVars, appVars>>

\* a caller starts a call of acquire
AcquireStart(t) ==
    /\ rlOps < MaxRlOps
    /\ AcquireEnter(t, "idle", "in_acquire")
    /\ rlOps' = rlOps + 1
    /\ UNCHANGED Others

\* and the call returns
AcquireReturn(t) ==
    /\ rlPc[t] = "in_acquire"
    /\ AcquireBody(t)
    /\ rlPc' = [rlPc EXCEPT ![t] = "idle"]
    /\ UNCHANGED <<rlNow, rlLocal, rlWake, rlOps, rlReturned, Others>>

\* line 62: wait_time = self.acquire(), first half
WaitStart(t) ==
    /\ rlOps < MaxRlOps
    /\ AcquireEnter(t, "idle", "in_first")
    /\ rlOps' = rlOps + 1
    /\ UNCHANGED Others

\* lines 62-64: the first acquire returns; if wait_time: time.sleep(wait_time + 0.1),
\* the buffer counted as one tick; otherwise wait_if_needed returns
WaitFirst(t) ==
    /\ rlPc[t] = "in_first"
    /\ AcquireBody(t)
    /\ IF rlLocal[t].limited /\ wait_time(t) > 0
       THEN /\ rlPc' = [rlPc EXCEPT ![t] = "sleeping"]
            /\ rlWake' = [rlWake EXCEPT ![t] = rlLocal[t].now + wait_time(t) + 1]
            /\ UNCHANGED rlReturned
       ELSE /\ rlPc' = [rlPc EXCEPT ![t] = "idle"]
            /\ rlReturned' = rlReturned \cup {[slept |-> FALSE, recorded |-> ~rlLocal[t].limited]}
            /\ UNCHANGED rlWake
    /\ UNCHANGED <<rlNow, rlLocal, rlOps, Others>>

\* line 66: self.acquire() after the sleep, first half
WaitWake(t) ==
    /\ rlNow >= rlWake[t]
    /\ AcquireEnter(t, "sleeping", "in_second")
    /\ UNCHANGED <<rlOps, Others>>

\* line 66: the second acquire returns, its result is dropped, wait_if_needed returns
WaitSecond(t) ==
    /\ rlPc[t] = "in_second"
    /\ AcquireBody(t)
    /\ rlPc' = [rlPc EXCEPT ![t] = "idle"]
    /\ rlReturned' = rlReturned \cup {[slept |-> TRUE, recorded |-> ~rlLocal[t].limited]}
    /\ UNCHANGED <<rlNow, rlLocal, rlWake, rlOps, Others>>

\* time.time() moves on
RlTick ==
    /\ rlNow < MaxRlTime
    /\ rlNow' = rlNow + 1
    /\ UNCHANGED <<calls, rlLock, rlLocal, rlPc, rlWake, rlOps, rlLast, rlAll, rlDenied,
                   rlReturned, Others>>

\* RateLimiter(max_calls, time_window): a fresh limiter and its callers
RlInit ==
    /\ rlNow = 0
    /\ calls = <<>>
    /\ rlLock = "free"
    /\ rlLocal = [t \in Callers |-> [now |-> 0, limited |-> FALSE]]
    /\ rlPc = [t \in Callers |-> "idle"]
    /\ rlWake = [t \in Callers |-> 0]
    /\ rlOps = 0
    /\ rlLast = AcquireCall(0, TRUE, 0, <<>>)
    /\ rlAll = <<>>
    /\ rlDenied = <<>>
    /\ rlReturned = {}

RateInit == RlInit /\ JtIdle /\ AppIdle /\ store = <<>> /\ RcIdle /\ ChIdle /\ SyIdle /\ TrIdle

RlNext ==
    \/ \E t \in Callers :
          \/ AcquireStart(t) \/ AcquireReturn(t)
          \/ WaitStart(t) \/ WaitFirst(t) \/ WaitWake(t) \/ WaitSecond(t)
    \/ RlTick

SpecRate == RateInit /\ [][RlNext]_vars

-----------------------------------------------------------------------------
(* background_tasks.py: cleanup_old_jobs, get_job_status, set_job_status and a
   reader that changes the dict it got, as background_import_zoho_candidates
   does with current_status. *)

\* the keys of the table
Keys(jobs) == { jobs[i].job_id : i \in 1..Len(jobs) }

\* the place of a key in the table
Place(jobs, job_id) == CHOOSE i \in 1..Len(jobs) : jobs[i].job_id = job_id

\* an entry of the table
Entry(job_id, d) ==
    [job_id |-> job_id, status |-> d.status, progress |-> d.progress, timestamp |-> d.timestamp]

\* status in ["completed", "failed"]
Finished(e) == e.status \in {"completed", "failed"}

\* lines 41-56: the first pass deletes the finished jobs older than the cutoff
ttl_pass(jobs, now) ==
    LET Keep(e) == ~(Finished(e) /\ e.timestamp < now - JOB_TTL_HOURS)
    IN  SelectSeq(jobs, Keep)

\* lines 60-61: jobs_by_status
jobs_by_status(jobs) == SelectSeq(jobs, Finished)

\* lines 64-67: del import_jobs[jobs_by_status[i][0]] for the first k of them
RECURSIVE delete_first(_, _)
delete_first(jobs, k) ==
    IF k = 0 \/ jobs = <<>> THEN jobs
    ELSE IF Finished(Head(jobs))
         THEN delete_first(Tail(jobs), k - 1)
         ELSE <<Head(jobs)>> \o delete_first(Tail(jobs), k)

Min(a, b) == IF a < b THEN a ELSE b

\* a bug that would stop after the first pass
excess_pass_missing(jobs) == jobs

\* a bug that would delete the oldest jobs over the limit whatever their status
excess_pass_any_status(jobs) ==
    IF Len(jobs) > MAX_JOBS_RETENTION
    THEN SubSeq(jobs, Len(jobs) - MAX_JOBS_RETENTION + 1, Len(jobs))
    ELSE jobs

\* a bug that would delete the newest finished jobs over the limit
excess_pass_newest_first(jobs) ==
    LET Reverse(q) == [i \in 1..Len(q) |-> q[Len(q) + 1 - i]]
    IN  IF Len(jobs) > MAX_JOBS_RETENTION
        THEN Reverse(delete_first(Reverse(jobs),
                 Min(Len(jobs) - MAX_JOBS_RETENTION, Len(jobs_by_status(jobs)))))
        ELSE jobs

\* lines 59-67: the second pass deletes the oldest finished jobs over the limit
excess_pass(jobs) ==
    IF Len(jobs) > MAX_JOBS_RETENTION
    THEN delete_first(jobs, Min(Len(jobs) - MAX_JOBS_RETENTION, Len(jobs_by_status(jobs))))
    ELSE jobs

\* lines 36-67: the table after cleanup_old_jobs
cleanup_old_jobs(jobs, now) ==
    IF Len(jobs) <= MAX_JOBS_RETENTION THEN jobs
    ELSE excess_pass(ttl_pass(jobs, now))

\* the entries a cleanup deleted, with the pass that deleted them
Deleted(jobs, now) ==
    LET mid == IF Len(jobs) <= MAX_JOBS_RETENTION THEN jobs ELSE ttl_pass(jobs, now)
        end == cleanup_old_jobs(jobs, now)
    IN  { [status |-> jobs[i].status, pass |-> "ttl"] :
            i \in { j \in 1..Len(jobs) : jobs[j].job_id \notin Keys(mid) } }
        \cup
        { [status |-> jobs[i].status, pass |-> "excess"] :
            i \in { j \in 1..Len(jobs) : jobs[j].job_id \in Keys(mid) \ Keys(end) } }

\* import_jobs[job_id] = status_data: a known key keeps its place
Store(jobs, job_id, d) ==
    IF job_id \in Keys(jobs)
    THEN [jobs EXCEPT ![Place(jobs, job_id)] = Entry(job_id, d)]
    ELSE Append(jobs, Entry(job_id, d))

\* what the reader holds once the table is jobs: a dict the table has dropped
\* or replaced is no longer the stored one
Reader(cur, jobs, replaced) ==
    IF cur \notin Keys(jobs) \/ cur \in replaced THEN 0 ELSE cur

\* the job ids a caller may pass: the known ones and one new one
Callable(jobs) ==
    Keys(jobs) \cup { j \in JobIds : j \notin Keys(jobs) /\ \A k \in JobIds \ Keys(jobs) : j <= k }

JtOthers == <<store, rcVars, chVars, syVars, trVars, rlVars, appVars>>

\* a bug that would stamp every dict with the time of the call
stamp_always(supplied, now) == now

\* lines 96-97: if "timestamp" not in status_data: status_data["timestamp"] = utcnow();
\* the caller's timestamp is a sequence of one value, or empty when it gave none
stamp(supplied, now) == IF supplied = <<>> THEN now ELSE supplied[1]

\* lines 85-99: set_job_status(job_id, {...}) with a new dict without timestamp
SetNew(job_id, status) ==
    /\ job_id \in Callable(import_jobs)
    /\ jtSets < MaxJtSets
    /\ jtSets' = jtSets + 1
    /\ import_jobs' = Store(import_jobs, job_id,
                            [status |-> status, progress |-> 0,
                             timestamp |-> stamp(<<>>, jtNow)])
    /\ jtCur' = Reader(jtCur, import_jobs', {job_id})
    /\ jtCleaned' = FALSE
    /\ jtRemoved' = {}
    /\ jtDirty' = jtDirty \ {job_id}
    /\ jtGot' = "none"
    /\ jtStamped' = (jtStamped /\ import_jobs'[Place(import_jobs', job_id)].timestamp = jtNow)
    /\ UNCHANGED <<jtNow, jtOutside, JtOthers>>

\* lines 85-99: set_job_status(job_id, current_status) with the dict the reader
\* got for that job: it has its timestamp, and it is the stored dict already
SetCurrent ==
    /\ jtCur # 0
    /\ jtSets < MaxJtSets
    /\ jtSets' = jtSets + 1
    /\ LET d == import_jobs[Place(import_jobs, jtCur)]
       IN  /\ import_jobs' = Store(import_jobs, jtCur,
                                   [status |-> d.status, progress |-> d.progress,
                                    timestamp |-> stamp(<<d.timestamp>>, jtNow)])
           /\ jtStamped' = (jtStamped /\ import_jobs'[Place(import_jobs', jtCur)].timestamp
                                           = d.timestamp)
    /\ jtCleaned' = FALSE
    /\ jtRemoved' = {}
    /\ jtDirty' = jtDirty \ {jtCur}
    /\ jtGot' = "none"
    /\ UNCHANGED <<jtCur, jtNow, jtOutside, JtOthers>>

\* lines 31-67: a call of cleanup_old_jobs()
Cleanup ==
    /\ import_jobs' = cleanup_old_jobs(import_jobs, jtNow)
    /\ jtCur' = Reader(jtCur, import_jobs', {})
    /\ jtRemoved' = Deleted(import_jobs, jtNow)
    /\ jtCleaned' = TRUE
    /\ jtDirty' = jtDirty \cap Keys(import_jobs')
    /\ jtGot' = "none"
    /\ UNCHANGED <<jtSets, jtNow, jtOutside, jtStamped, JtOthers>>

\* what get_job_status(job_id) returned, against the last set_job_status(job_id, ...):
\* None for a key the table did not hold, None for a key the cleanup of this
\* very call deleted, the dict as a reader changed it, or the dict as it was set
Got(before, after, dirty, job_id) ==
    IF job_id \notin Keys(before) /\ job_id \notin Keys(after) THEN "unknown_id"
    ELSE IF job_id \notin Keys(after) THEN "evicted"
    ELSE IF job_id \in dirty THEN "changed"
    ELSE "latest"

\* lines 70-83: get_job_status(job_id) runs cleanup_old_jobs() and returns
\* import_jobs.get(job_id), the stored dict itself or None
GetJobStatus(job_id) ==
    /\ job_id \in Callable(import_jobs)
    /\ import_jobs' = cleanup_old_jobs(import_jobs, jtNow)
    /\ jtCur' = IF job_id \in Keys(import_jobs') THEN job_id ELSE 0
    /\ jtRemoved' = Deleted(import_jobs, jtNow)
    /\ jtCleaned' = TRUE
    /\ jtDirty' = jtDirty \cap Keys(import_jobs')
    /\ jtGot' = Got(import_jobs, import_jobs', jtDirty, job_id)
    /\ UNCHANGED <<jtSets, jtNow, jtOutside, jtStamped, JtOthers>>

\* lines 167-169 and 181-183: current_status["progress"] = ..., outside the lock,
\* by the task of a job in progress
ChangeCurrent ==
    /\ jtCur # 0
    /\ import_jobs[Place(import_jobs, jtCur)].status = "in_progress"
    /\ import_jobs[Place(import_jobs, jtCur)].progress = 0
    /\ import_jobs' = [import_jobs EXCEPT ![Place(import_jobs, jtCur)].progress = 30]
    /\ jtOutside' = TRUE
    /\ jtDirty' = jtDirty \cup {jtCur}
    /\ jtGot' = "none"
    /\ UNCHANGED <<jtCur, jtSets, jtNow, jtCleaned, jtRemoved, jtStamped, JtOthers>>

\* datetime.utcnow() moves on, by more than JOB_TTL_HOURS
JtTick ==
    /\ jtNow = 0
    /\ jtNow' = jtNow + JOB_TTL_HOURS + 1
    /\ jtGot' = "none"
    /\ UNCHANGED <<import_jobs, jtCur, jtSets, jtCleaned, jtRemoved, jtOutside, jtDirty,
                   jtStamped, JtOthers>>

JobInit == JtIdle /\ RlIdle /\ AppIdle /\ store = <<>> /\ RcIdle /\ ChIdle /\ SyIdle /\ TrIdle

JtNext ==
    \/ \E j \in JobIds, st \in {"in_progress", "completed", "failed"} : SetNew(j, st)
    \/ \E j \in JobIds : GetJobStatus(j)
    \/ SetCurrent
    \/ Cleanup
    \/ ChangeCurrent
    \/ JtTick

SpecJobs == JobInit /\ [][JtNext]_vars

-----------------------------------------------------------------------------
(* sync_engine.py: test_sync_single_record, one action per step. The whole body
   is inside one try whose handler fills the error of the result and returns
   it; the fetch and the write-back have handlers of their own. *)

\* a record whose name differs from the name of P1 by a trailing space
NamePadded == Str(<<"A", " ">>)
P14 == Cand(Id1, NamePadded, MailA, None, LastY)

\* a record with no name
P15 == Cand(Id2, None, MailB, None, LastX)

\* the records the CRM may answer a test-mode call with
TestRecords == CandidatePool \cup {P14, P15}

TestIds == {None, Empty, Id1, Id2}
TestEmails == {None, Empty, MailA, MailB}

\* the clock reading used for the identifier of a record created by test mode
TestNow == 1

AppOthers == <<rcVars, chVars, syVars, trVars, rlVars, jtVars, bgVars>>

\* line 298: if not record_id and not email
test_validate(record_id, email) == Truthy(record_id) \/ Truthy(email)

\* lines 362-366: the lookup by email, then by employee_id when that found nothing
test_find_existing(db, data) ==
    LET byEmail == IF Truthy(data.email) /\ ~QueryRaises(data.email)
                   THEN FirstRow(db, "email", data.email) ELSE 0
        byEmp == IF Truthy(data.employee_id) /\ ~QueryRaises(data.employee_id)
                 THEN FirstRow(db, "employee_id", data.employee_id) ELSE 0
    IN  IF Truthy(data.email) /\ QueryRaises(data.email)
        THEN [raised |-> TRUE, idx |-> 0, key |-> "email"]
        ELSE IF byEmail # 0 THEN [raised |-> FALSE, idx |-> byEmail, key |-> "email"]
        ELSE IF Truthy(data.employee_id) /\ QueryRaises(data.employee_id)
        THEN [raised |-> TRUE, idx |-> 0, key |-> "employee_id"]
        ELSE IF byEmp # 0 THEN [raised |-> FALSE, idx |-> byEmp, key |-> "employee_id"]
        ELSE [raised |-> FALSE, idx |-> 0, key |-> "none"]

\* lines 419-424: the handler of the outer try
test_failed(result) == [result EXCEPT !.error = "Test sync failed"]

\* a bug that would make the write-back outside a try of its own
write_back_unguarded(result, fails) ==
    IF fails THEN test_failed(result)
    ELSE [result EXCEPT !.zoho_updated = TRUE, !.success = TRUE]

\* lines 402-414: the write-back in its own try, then result["success"] = True
write_back(result, fails) ==
    IF fails
    THEN [result EXCEPT !.error = "Database updated but failed to update Zoho",
                        !.success = TRUE]
    ELSE [result EXCEPT !.zoho_updated = TRUE, !.success = TRUE]

\* the flush of db.commit() raises on a value that cannot be bound and on a
\* primary key that is already taken
TestCommitRaises(db, row, isNew) ==
    \/ \E f \in DataFields : row[f].k = "obj"
    \/ isNew /\ \E i \in 1..Len(db) : db[i]["id"] = row["id"]

TmReturn(result) ==
    /\ tmResult' = result
    /\ tmPc' = "returned"
    /\ tmOutcome' = "returned"

\* lines 284-303: the result dict, the validation, the first wait_if_needed
TmCall(record_id, email) ==
    /\ tmPc = "off"
    /\ tmArgs' = [record_id |-> record_id, email |-> email]
    /\ tmStore0' = store
    /\ IF ~test_validate(record_id, email)
       THEN /\ TmReturn([NewTestResult EXCEPT
                           !.error = "Either record_id or email must be provided"])
            /\ UNCHANGED tmEvents
       ELSE /\ tmEvents' = Append(tmEvents, "rate")
            /\ tmPc' = "fetch"
            /\ UNCHANGED <<tmResult, tmOutcome>>
    /\ UNCHANGED <<store, tmRecord, tmDecision, AppOthers>>

\* lines 306-352: the fetch by id (the first page, then every page), or else the
\* search by email after a second wait_if_needed. how is what the CRM does:
\* "raise", "missing", "page1" (the record is on the first page) or "later"
TmFetch(how, record) ==
    /\ tmPc = "fetch"
    /\ LET byId == Truthy(tmArgs.record_id)
           asked == IF byId
                    THEN IF how = "page1" THEN <<"get_records">>
                         ELSE <<"get_records", "get_all_records">>
                    ELSE <<"rate", "search_records">>
       IN  /\ IF byId THEN record["id"] = tmArgs.record_id
                      ELSE how # "page1" /\ record["Email"] = tmArgs.email
           /\ tmEvents' = tmEvents \o asked
           /\ CASE how = "raise" ->
                     /\ TmReturn([tmResult EXCEPT
                            !.error = IF byId THEN "Failed to fetch record by ID"
                                              ELSE "Failed to search by email"])
                     /\ UNCHANGED tmRecord
                [] how = "missing" ->
                     /\ TmReturn([tmResult EXCEPT !.error = "No record found"])
                     /\ UNCHANGED tmRecord
                [] OTHER ->
                     /\ tmRecord' = record
                     /\ tmResult' = [tmResult EXCEPT !.record_fetched = TRUE]
                     /\ tmPc' = "reconcile"
                     /\ UNCHANGED tmOutcome
    /\ UNCHANGED <<store, tmArgs, tmDecision, tmStore0, AppOthers>>

\* lines 354-399: the mapping, the lookup, then the update, the skip or the
\* creation, each change followed by its commit; fails is whether the database
\* refuses the commit
TmReconcile(fails) ==
    /\ tmPc = "reconcile"
    /\ LET data == map_zoho_contact_to_interpreter(tmRecord)
           found == test_find_existing(store, data)
           existing == store[found.idx]
           changed == get_changed_fields(existing, data)
           after == apply_changed_fields(existing, data, changed)
           new == [f \in RowFields |-> IF f = "id" THEN <<TestNow, -1>> ELSE data[f]]
       IN  IF found.raised
           THEN /\ TmReturn(test_failed(tmResult))
                /\ tmDecision' = Decision("error", NoFound, "query raised", NoRow, NoRow)
                /\ UNCHANGED <<store, tmEvents>>
           ELSE IF found.idx # 0
           THEN IF has_changes(existing, data)
                THEN IF fails \/ TestCommitRaises(store, after, FALSE)
                     THEN /\ TmReturn(test_failed(
                                 [tmResult EXCEPT !.changes_detected = changed]))
                          /\ tmDecision' = Decision("error", found, "commit raised",
                                                    existing, existing)
                          /\ UNCHANGED <<store, tmEvents>>
                     ELSE /\ store' = [store EXCEPT ![found.idx] = after]
                          /\ tmEvents' = Append(tmEvents, "commit")
                          /\ tmResult' = [tmResult EXCEPT !.changes_detected = changed,
                                                          !.action_taken = "updated",
                                                          !.interpreter_id = existing["id"]]
                          /\ tmDecision' = Decision("updated", found, "", existing, after)
                          /\ tmPc' = "writeback"
                          /\ UNCHANGED tmOutcome
                ELSE /\ ~fails
                     /\ tmResult' = [tmResult EXCEPT !.action_taken = "skipped_no_changes",
                                                     !.interpreter_id = existing["id"]]
                     /\ tmDecision' = Decision("skipped", found, "No changes detected",
                                               existing, existing)
                     /\ tmPc' = "writeback"
                     /\ UNCHANGED <<store, tmEvents, tmOutcome>>
           ELSE IF fails \/ TestCommitRaises(store, new, TRUE)
                THEN /\ TmReturn(test_failed(tmResult))
                     /\ tmDecision' = Decision("error", NoFound, "commit raised", NoRow, NoRow)
                     /\ UNCHANGED <<store, tmEvents>>
                ELSE /\ store' = Append(store, new)
                     /\ tmEvents' = Append(tmEvents, "commit")
                     /\ tmResult' = [tmResult EXCEPT !.action_taken = "created",
                                                     !.interpreter_id = new["id"]]
                     /\ tmDecision' = Decision("created", NoFound, "", NoRow, new)
                     /\ tmPc' = "writeback"
                     /\ UNCHANGED tmOutcome
    /\ UNCHANGED <<tmArgs, tmRecord, tmStore0, AppOthers>>

\* lines 401-417: the write-back of the 'Synced' marker for a record created or
\* updated, and the return; fails is whether the CRM refuses the update
TmWriteBack(fails) ==
    /\ tmPc = "writeback"
    /\ IF tmResult.action_taken \in {"created", "updated"}
       THEN /\ tmEvents' = tmEvents \o <<"rate", "update_record">>
            /\ TmReturn(write_back(tmResult, fails))
       ELSE /\ ~fails
            /\ TmReturn([tmResult EXCEPT !.success = TRUE])
            /\ UNCHANGED tmEvents
    /\ UNCHANGED <<store, tmArgs, tmRecord, tmDecision, tmStore0, AppOthers>>

TmNext ==
    \/ \E record_id \in TestIds, email \in TestEmails : TmCall(record_id, email)
    \/ \E how \in {"raise", "missing", "page1", "later"}, record \in TestRecords :
           TmFetch(how, record)
    \/ \E fails \in BOOLEAN : TmReconcile(fails)
    \/ \E fails \in BOOLEAN : TmWriteBack(fails)

TmInit == store \in InitStores /\ TmIdle

TestInit == TmInit /\ BgIdle /\ RcIdle /\ ChIdle /\ SyIdle /\ TrIdle /\ RlIdle /\ JtIdle

SpecTest == TestInit /\ [][TmNext]_vars

-----------------------------------------------------------------------------
(* main.py: import_zoho_candidates and import_zoho_candidates_async;
   background_tasks.py: background_import_zoho_candidates; main.py:
   get_import_status. The two endpoints validate their arguments, then the
   synchronous one fetches, processes and commits in the request, and the
   asynchronous one queues a task that does the same and writes its progress to
   the job tracker. Each runs in a thread of the server's pool. *)

\* the values a caller may pass for max_records, language and service_location:
\* None, an int, a str, or another JSON value
IntVal(n) == [k |-> "int", n |-> n]
NoneVal == [k |-> "none", n |-> 0]
StrVal == [k |-> "str", n |-> 0]
ObjVal == [k |-> "obj", n |-> 0]

MaxRecordsValues == {NoneVal, IntVal(0), IntVal(1), IntVal(1000), IntVal(1001), StrVal}
FilterValues == {NoneVal, StrVal, ObjVal}

\* the batches the CRM answers an import request with
ImportBatches == { <<>>, <<P1>>, <<P9, P8>>, <<P6, P10>>, <<P14>> }

jtMon == <<jtCur, jtSets, jtNow, jtCleaned, jtRemoved, jtOutside, jtDirty, jtGot, jtStamped>>

BgOthers == <<rcVars, chVars, syVars, trVars, rlVars, tmVars, jtMon>>

\* a bug that would accept every request
validate_import_data_accepts(max_records, language, service_location) == ""

\* utils.py, validate_import_data: the error message, "" for None
validate_import_data(max_records, language, service_location) ==
    IF max_records.k # "none" /\ (max_records.k # "int" \/ max_records.n < 1)
    THEN "max_records must be a positive integer"
    ELSE IF max_records.k # "none" /\ max_records.n > 1000
    THEN "max_records cannot exceed 1000"
    ELSE IF language.k # "none" /\ language.k # "str"
    THEN "language must be a string"
    ELSE IF service_location.k # "none" /\ service_location.k # "str"
    THEN "service_location must be a string"
    ELSE ""

\* the job id uuid4() gives: one the table does not hold
NewJobId == CHOOSE j \in JobIds : j \notin Keys(import_jobs)

\* set_job_status(job_id, {...}) with a new dict, of an asynchronous import
BgSet(jobs, status, progress) ==
    IF bgJob = 0 THEN jobs
    ELSE Store(jobs, bgJob, [status |-> status, progress |-> progress,
                             timestamp |-> stamp(<<>>, jtNow)])

\* current_status = get_job_status(job_id) or {}; current_status["progress"] = n;
\* set_job_status(job_id, current_status): the stored dict, changed and stored
\* again, or a dict with no status when the table does not hold the job
BgProgress(jobs, progress) ==
    IF bgJob = 0 THEN jobs
    ELSE LET cleaned == cleanup_old_jobs(jobs, jtNow)
         IN  IF bgJob \in Keys(cleaned)
             THEN [cleaned EXCEPT ![Place(cleaned, bgJob)].progress = progress]
             ELSE Store(cleaned, bgJob, [status |-> "absent", progress |-> progress,
                                         timestamp |-> stamp(<<>>, jtNow)])

\* what the function wrote for its job
Written(status, progress) ==
    IF bgJob = 0 THEN bgWrites
    ELSE Append(bgWrites, [status |-> status, progress |-> progress])

\* a bug that would leave the job as it is when the import fails
BgFail_silent(detail) ==
    /\ UNCHANGED <<import_jobs, bgWrites>>
    /\ bgDetail' = detail
    /\ bgPc' = "done"

\* background_tasks.py lines 216-224: set_job_status(job_id, {"status": "failed",
\* "progress": 0, ...}); main.py lines 729-731: HTTPException(status_code=500)
BgFail(detail) ==
    /\ import_jobs' = BgSet(import_jobs, "failed", 0)
    /\ bgWrites' = Written("failed", 0)
    /\ bgDetail' = detail
    /\ bgPc' = "done"

\* db.commit() of a pass whose lookups read rows: the rows it updated are written
\* and the rows it added are appended; the rows other sessions committed since
\* are left alone
CommitInto(db, res) ==
    [i \in 1..Len(db) |->
        IF \E u \in 1..Len(res.updated) : res.updated[u] = i THEN res.rows[i] ELSE db[i]]
    \o res.added

SummaryCounts(candidates, res) ==
    [total |-> Len(candidates), created |-> Len(res.created), updated |-> Len(res.updated),
     skipped |-> Len(res.skipped), errors |-> Len(res.errors)]

\* main.py lines 653-660 and 756-778: the validation, then the first
\* wait_if_needed of the synchronous endpoint, or the job id and add_task of the
\* asynchronous one
ImportRequest(async, max_records, language, service_location) ==
    /\ bgPc = "off"
    /\ bgValid' = /\ max_records.k = "none" \/
                     (max_records.k = "int" /\ max_records.n \in 1..1000)
                  /\ language.k \in {"none", "str"}
                  /\ service_location.k \in {"none", "str"}
    /\ LET validation_error ==
               validate_import_data(max_records, language, service_location)
       IN  IF validation_error # ""
           THEN /\ bgDetail' = validation_error
                /\ bgPc' = "rejected"
                /\ UNCHANGED <<bgJob, bgEvents>>
           ELSE IF async
           THEN /\ bgJob' = NewJobId
                /\ bgPc' = "queued"
                /\ UNCHANGED <<bgDetail, bgEvents>>
           ELSE /\ bgEvents' = Append(bgEvents, "rate")
                /\ bgPc' = "started"
                /\ UNCHANGED <<bgJob, bgDetail>>
    /\ UNCHANGED <<store, import_jobs, bgCands, bgRes, bgStore0, bgWrites, bgResults,
                   BgOthers>>

\* background_tasks.py lines 119-132: the task starts: set_job_status in_progress
\* with progress 0, then wait_if_needed
BgStart ==
    /\ bgPc = "queued"
    /\ import_jobs' = BgSet(import_jobs, "in_progress", 0)
    /\ bgWrites' = Written("in_progress", 0)
    /\ bgEvents' = Append(bgEvents, "rate")
    /\ bgPc' = "started"
    /\ UNCHANGED <<store, bgJob, bgValid, bgDetail, bgCands, bgRes, bgStore0, bgResults,
                   BgOthers>>

\* background_tasks.py lines 134-170, main.py lines 662-696: get_all_records,
\* which may raise; no candidates ends the import; otherwise progress 30
BgFetch(candidates, raises) ==
    /\ bgPc = "started"
    /\ bgEvents' = Append(bgEvents, "get_all_records")
    /\ IF raises
       THEN /\ BgFail("Import failed")
            /\ UNCHANGED <<bgCands, bgResults>>
       ELSE IF candidates = <<>>
       THEN /\ import_jobs' = BgSet(import_jobs, "completed", 100)
            /\ bgWrites' = Written("completed", 100)
            /\ bgResults' = NoCounts
            /\ bgPc' = "done"
            /\ UNCHANGED <<bgCands, bgDetail>>
       ELSE /\ import_jobs' = BgProgress(import_jobs, 30)
            /\ bgWrites' = Written("in_progress", 30)
            /\ bgCands' = candidates
            /\ bgPc' = "fetched"
            /\ UNCHANGED <<bgDetail, bgResults>>
    /\ UNCHANGED <<store, bgJob, bgValid, bgRes, bgStore0, BgOthers>>

\* background_tasks.py lines 172-184, main.py line 699: process_interpreter_import
\* in the session of the request or task, then progress 80
BgProcess ==
    /\ bgPc = "fetched"
    /\ bgRes' = process_interpreter_import(bgCands, store, TRUE, TestNow)
    /\ bgStore0' = store
    /\ import_jobs' = BgProgress(import_jobs, 80)
    /\ bgWrites' = Written("in_progress", 80)
    /\ bgPc' = "processed"
    /\ UNCHANGED <<store, bgJob, bgValid, bgDetail, bgCands, bgResults, bgEvents, BgOthers>>

\* background_tasks.py lines 186-214, main.py lines 702-731: db.commit(), then the
\* completed status with the counts; a commit that raises is rolled back and the
\* import fails. fails is whether the database refuses the commit
BgCommit(fails) ==
    /\ bgPc = "processed"
    /\ IF fails \/ CommitRaises(bgRes)
       THEN /\ BgFail("Import failed")
            /\ UNCHANGED <<store, bgResults, bgEvents>>
       ELSE /\ store' = CommitInto(store, bgRes)
            /\ bgEvents' = Append(bgEvents, "commit")
            /\ import_jobs' = BgSet(import_jobs, "completed", 100)
            /\ bgWrites' = Written("completed", 100)
            /\ bgResults' = SummaryCounts(bgCands, bgRes)
            /\ bgPc' = "done"
            /\ UNCHANGED bgDetail
    /\ UNCHANGED <<bgJob, bgValid, bgCands, bgRes, bgStore0, BgOthers>>

\* main.py lines 784-797: get_import_status(job_id), by any client
BgPoll(job_id) ==
    /\ job_id \in Keys(import_jobs)
    /\ import_jobs' = cleanup_old_jobs(import_jobs, jtNow)
    /\ import_jobs' # import_jobs
    /\ UNCHANGED <<store, bgVars, BgOthers>>

BgNext ==
    \/ \E async \in BOOLEAN, max_records \in MaxRecordsValues,
          language \in FilterValues, service_location \in FilterValues :
           ImportRequest(async, max_records, language, service_location)
    \/ BgStart
    \/ \E candidates \in ImportBatches, raises \in BOOLEAN : BgFetch(candidates, raises)
    \/ BgProcess
    \/ \E fails \in BOOLEAN : BgCommit(fails)
    \/ \E j \in JobIds : BgPoll(j)

\* the tables of jobs an import may find: none, or as many finished jobs as the
\* table retains
InitJobs ==
    { <<>>,
      [i \in 1..MAX_JOBS_RETENTION |->
          [job_id |-> i, status |-> "completed", progress |-> 100, timestamp |-> 0]] }

AppNext == TmNext \/ BgNext

\* the local stores the requests start from, each committed by an import of a
\* seed batch into the empty table
AppStores ==
    { CommitStore(<<>>, process_interpreter_import(seed, <<>>, TRUE, 0)) :
        seed \in { <<>>, <<P1>>, <<P5, P7>> } }

AppInit ==
    /\ store \in AppStores
    /\ TmIdle /\ BgIdle
    /\ RcIdle /\ ChIdle /\ SyIdle /\ TrIdle /\ RlIdle
    /\ import_jobs \in InitJobs
    /\ jtCur = 0 /\ jtSets = 0 /\ jtNow = 0 /\ jtCleaned = FALSE /\ jtRemoved = {}
    /\ jtOutside = FALSE /\ jtDirty = {} /\ jtGot = "none" /\ jtStamped = TRUE

SpecApp == AppInit /\ [][AppNext]_vars

-----------------------------------------------------------------------------
(* Claims on the triggers *)

Executing == { t \in Requests : trPc[t] = "in_run_sync" }

\* C1: single-flight: under every interleaving of trigger requests at most one
\* sync run is executing at any time; a run another request tries to start
\* while one is executing is rejected.
C1_SingleFlight == Cardinality(Executing) <= 1

-----------------------------------------------------------------------------
(* Claims on the sync orchestrator *)

Returned == {"returned_empty", "returned_final", "returned_failed"}

Counts == {"total_fetched", "total_created", "total_updated", "total_skipped",
           "total_errors", "total_synced_to_zoho"}

\* C2: every call of run_sync returns a SyncOperation whose status is completed,
\* partial or failed; wherever a step fails, no exception escapes run_sync and
\* the run record is not left in status running.
C2_AlwaysReturnsTerminal ==
    /\ syPc # "raised"
    /\ syPc \in Returned => syOp.status \in Terminal /\ syRow.status \in Terminal

\* C3: the status changes only from running to a terminal status, in a single
\* terminal write: after a version of the row with a terminal status has been
\* committed, no other version of the row (status or counts) is committed.
C3_SingleTerminalWrite ==
    \A i \in 1..Len(syWrites) : i < Len(syWrites) => syWrites[i].status = "running"

\* C4: when at least one candidate was fetched and the run executes to completion
\* (it returns at the end of the try block), the final status is completed iff
\* reconciliation and write-back both produced no error, and partial otherwise;
\* it is never failed.
C4_FinalStatus ==
    syPc = "returned_final" =>
        /\ Len(syCands) >= 1
        /\ syOp = syRow
        /\ syOp.status \in {"completed", "partial"}
        /\ syOp.status = "completed" <=> (syRes.errors = <<>> /\ syErrs = <<>>)

C4_Witness ==
    /\ syPc = "returned_final"
    /\ syRes.errors # <<>>
    /\ syErrs = <<>>
    /\ syRow.status = "partial"

FetchedNothing == \E i \in 1..Len(syEvents) : syEvents[i] = "fetched" /\ syCands = <<>>

Called(what) == \E i \in 1..Len(syEvents) : syEvents[i] = what

\* C5: when the fetch returns zero candidates, the run finalizes as completed with
\* every count 0, reconciliation is not run and no write-back request is sent.
C5_EmptyFetch ==
    (syPc \in Returned /\ FetchedNothing) =>
        /\ syRow.status = "completed"
        /\ \A c \in Counts : syRow[c] = 0
        /\ ~Called("reconcile")
        /\ ~Called("bulk")

\* C5, amended: when the fetch returns zero candidates and run_sync returns, every
\* count is 0, reconciliation is not run and no write-back request is sent; the
\* status is completed when no step of the run raised and failed when one did.
C5_EmptyFetchNoFault ==
    (syPc \in Returned /\ FetchedNothing) =>
        /\ syRow.status = (IF syFaults = 0 THEN "completed" ELSE "failed")
        /\ syOp = syRow
        /\ \A c \in Counts : syRow[c] = 0
        /\ ~Called("reconcile")
        /\ ~Called("bulk")

C5_Witness ==
    /\ syPc = "returned_empty"
    /\ FetchedNothing
    /\ syFaults = 0
    /\ syRow.status = "completed"

-----------------------------------------------------------------------------
(* Claims on the reconciliation engine *)

CountKind(decisions, kind) ==
    Cardinality({ i \in 1..Len(decisions) : decisions[i].kind = kind })

\* C6: every candidate of a batch goes to exactly one of created, updated,
\* skipped, errors, so the four lists together are as long as the input.
C6_FourWayPartition ==
    rcPhase \in {"pass1", "pass2"} =>
        /\ Len(rcRes.created) + Len(rcRes.updated) + Len(rcRes.skipped) + Len(rcRes.errors)
              = Len(rcBatch)
        /\ Len(rcRes.decisions) = Len(rcBatch)
        /\ CountKind(rcRes.decisions, "created") = Len(rcRes.created)
        /\ CountKind(rcRes.decisions, "updated") = Len(rcRes.updated)
        /\ CountKind(rcRes.decisions, "skipped") = Len(rcRes.skipped)
        /\ CountKind(rcRes.decisions, "error") = Len(rcRes.errors)

C6_Witness ==
    /\ rcPhase = "pass1"
    /\ Len(rcBatch) = 2
    /\ Len(rcRes.updated) = 1
    /\ Len(rcRes.errors) = 1

Classified(kind) == kind \in {"created", "updated", "skipped"}

SecondPassSkipsAll ==
    /\ rcRes.created = <<>>
    /\ rcRes.updated = <<>>
    /\ \A i \in 1..Len(rcBatch) :
          Classified(rcRes1.decisions[i].kind) =>
             /\ rcRes.decisions[i].kind = "skipped"
             /\ rcRes.decisions[i].reason = "No changes detected"
    /\ store = rcStore1

\* C7 as stated: a second import of the same batch with update_existing=true,
\* after the first was committed, creates nothing, updates nothing, skips every
\* candidate pass 1 classified, and leaves the store as pass 1 left it.
C7_Idempotent ==
    (rcPhase = "pass2" /\ rcUpd /\ rcCommitted1) => SecondPassSkipsAll

Mapped(i) == map_zoho_contact_to_interpreter(rcBatch[i])

KeyFields == {"record_id", "email", "employee_id"}

\* every candidate of the batch carries a non-empty record id, email or employee
\* id, no two candidates carry the same non-empty record id, email or employee
\* id, and no two of them selected the same local record on pass 1
DistinctTargets ==
    /\ \A i \in 1..Len(rcBatch) : \E f \in KeyFields : Truthy(Mapped(i)[f])
    /\ \A i, j \in 1..Len(rcBatch) : i # j =>
          /\ \A f \in KeyFields : Truthy(Mapped(i)[f]) => Mapped(i)[f] # Mapped(j)[f]
          /\ rcRes1.decisions[i].idx # 0
                => rcRes1.decisions[i].idx # rcRes1.decisions[j].idx

\* C7 amended: the same, for batches in which every candidate has a key, the
\* candidates' keys are pairwise different and the candidates select pairwise
\* different local records.
C7_IdempotentDistinct ==
    (rcPhase = "pass2" /\ rcUpd /\ rcCommitted1 /\ DistinctTargets) => SecondPassSkipsAll

C7_Witness ==
    /\ rcPhase = "pass2" /\ rcUpd /\ rcCommitted1 /\ DistinctTargets
    /\ Len(rcBatch) = 2
    /\ rcRes1.decisions[1].kind = "created"
    /\ rcRes1.decisions[2].kind = "updated"
    /\ rcRes.decisions[1].kind = "skipped"
    /\ rcRes.decisions[2].kind = "skipped"

RowsWith(db, f, v) == { r \in 1..Len(db) : Truthy(v) /\ db[r][f] = v }

\* C8: the local record used for a candidate is the one whose record_id is the
\* candidate's external id if there is one, otherwise the one whose email is the
\* candidate's email, otherwise the one whose employee_id is the candidate's; the
\* candidate is created only when none of the three finds a record.
C8_MatchOrder ==
    rcPhase \in {"pass1", "pass2"} =>
        \A i \in 1..Len(rcBatch) :
            LET d == Mapped(i)
                dec == rcRes.decisions[i]
                byId == RowsWith(rcStore0, "record_id", d.record_id)
                byEmail == RowsWith(rcStore0, "email", d.email)
                byEmp == RowsWith(rcStore0, "employee_id", d.employee_id)
            IN  dec.kind # "error" =>
                  /\ byId # {} => dec.idx = Lowest(byId)
                  /\ (byId = {} /\ byEmail # {}) => dec.idx = Lowest(byEmail)
                  /\ (byId = {} /\ byEmail = {} /\ byEmp # {}) => dec.idx = Lowest(byEmp)
                  /\ (dec.kind = "created") <=> (byId = {} /\ byEmail = {} /\ byEmp = {})

C8_Witness ==
    /\ rcPhase = "pass1"
    /\ \E i \in 1..Len(rcBatch) :
          LET d == Mapped(i)
              byId == RowsWith(rcStore0, "record_id", d.record_id)
              byEmail == RowsWith(rcStore0, "email", d.email)
          IN  /\ byId # {} /\ byEmail # {} /\ Lowest(byId) # Lowest(byEmail)
              /\ rcRes.decisions[i].idx = Lowest(byId)

\* None, the empty string and the text "none" in any letter case
Absent(v) == v = None \/ v = Empty \/ (v.k = "str" /\ Lower(v.s) = NoneText)

\* equal as the claim reads it: both absent, or both present with the same trimmed text
SameValue(a, b) ==
    \/ Absent(a) /\ Absent(b)
    \/ ~Absent(a) /\ ~Absent(b) /\ Strip(a.s) = Strip(b.s)

TrackedFields == { has_changes_fields[i] : i \in 1..Len(has_changes_fields) }

\* C9: has_changes is false exactly when every tracked field of the candidate
\* equals the local value after None, "" and "none" are taken as absent and
\* other values are trimmed.
C9_ChangeDetection ==
    chPc = "done" =>
        (chHas <=> \E f \in TrackedFields : ~SameValue(chNew[f], chExisting[f]))

C9_Witness ==
    /\ chPc = "done"
    /\ chExisting.email = None
    /\ chNew.email = Empty
    /\ ~chHas

\* C10 as stated: a matched candidate whose value for a tracked field is the
\* empty string, where the local value is non-empty, is classified updated and
\* the local field then holds the empty string.
C10_ClearingField ==
    (rcPhase = "pass1" /\ rcUpd) =>
        \A i \in 1..Len(rcBatch) : \A f \in TrackedFields :
            LET dec == rcRes.decisions[i] IN
            (dec.idx # 0 /\ Mapped(i)[f] = Empty /\ dec.before[f].k = "str"
                /\ dec.before[f].s # <<>>)
                => (dec.kind = "updated" /\ dec.after[f] = Empty)

\* C10 amended: the same, where the local value is not absent (not None, not
\* "", not the text "none" in any case).
C10_ClearingPresentField ==
    (rcPhase = "pass1" /\ rcUpd) =>
        \A i \in 1..Len(rcBatch) : \A f \in TrackedFields :
            LET dec == rcRes.decisions[i] IN
            (dec.idx # 0 /\ Mapped(i)[f] = Empty /\ ~Absent(dec.before[f]))
                => (dec.kind = "updated" /\ dec.after[f] = Empty)

C10_Witness ==
    /\ rcPhase = "pass1" /\ rcUpd
    /\ \E i \in 1..Len(rcBatch) :
          LET dec == rcRes.decisions[i] IN
          /\ dec.idx # 0 /\ Mapped(i)["last_name"] = Empty
          /\ dec.before["last_name"] = LastX
          /\ dec.kind = "updated" /\ dec.after["last_name"] = Empty
          /\ store[dec.idx]["last_name"] = Empty

\* C11: when a candidate is classified updated, exactly the fields whose
\* normalized candidate value differs from the normalized local value are
\* assigned, each to the candidate's raw value, and every other field of the
\* local record is left as it was.
C11_OnlyChangedFields ==
    rcPhase \in {"pass1", "pass2"} =>
        \A i \in 1..Len(rcBatch) :
            LET dec == rcRes.decisions[i] IN
            dec.kind = "updated" =>
                \A f \in RowFields :
                    dec.after[f] =
                        IF f \in DataFields /\ ~SameValue(Mapped(i)[f], dec.before[f])
                        THEN Mapped(i)[f]
                        ELSE dec.before[f]

C11_Witness ==
    /\ rcPhase = "pass1"
    /\ \E i \in 1..Len(rcBatch) :
          LET dec == rcRes.decisions[i] IN
          /\ dec.kind = "updated"
          /\ dec.after["email"] = MailB /\ dec.before["email"] = MailA
          /\ dec.before["last_name"] = None /\ Mapped(i)["last_name"] = Empty
          /\ dec.after["last_name"] = None
          /\ dec.after["id"] = dec.before["id"]

-----------------------------------------------------------------------------
(* Claims on the field mapping *)

Unmatched(db, d) ==
    /\ RowsWith(db, "record_id", d.record_id) = {}
    /\ RowsWith(db, "email", d.email) = {}
    /\ RowsWith(db, "employee_id", d.employee_id) = {}

\* C12: a candidate that carries Full_Name, Email and Agreed_Rate, no hourly
\* rate, and matches no local record yields exactly one created record whose
\* contact_name is Full_Name and whose rate_per_minute and rate_per_hour are both
\* the Agreed_Rate text.
C12_AgreedRateBothRates ==
    (rcPhase = "pass1" /\ Len(rcBatch) = 1) =>
        LET c == rcBatch[1] IN
        (/\ Truthy(c["Full_Name"]) /\ Truthy(c["Email"])
         /\ Truthy(c["Agreed_Rate"]) /\ Lower(c["Agreed_Rate"].s) # NoneText
         /\ c["Rate_Hour"] = None
         /\ Unmatched(rcStore0, Mapped(1)))
        => /\ Len(rcRes.created) = 1
           /\ rcRes.decisions[1].kind = "created"
           /\ rcRes.decisions[1].after["contact_name"] = c["Full_Name"]
           /\ rcRes.decisions[1].after["rate_per_minute"] = c["Agreed_Rate"]
           /\ rcRes.decisions[1].after["rate_per_hour"] = c["Agreed_Rate"]

-----------------------------------------------------------------------------
(* Claims on per-candidate errors *)

RemoveAt(seq, i) == SubSeq(seq, 1, i - 1) \o SubSeq(seq, i + 1, Len(seq))

ErrorsUpTo(decisions, i) ==
    Cardinality({ j \in 1..i : decisions[j].kind = "error" })

-----------------------------------------------------------------------------
(* Claims on the rate limiter *)

\* some call of acquire has returned
AcquireDone == rlAll # <<>> \/ rlDenied # <<>>

\* the timestamps recorded before the last call that lie within its window
InWindow == { i \in 1..Len(rlLast.before) : rlLast.before[i] >= rlLast.now - time_window }

\* the oldest of them
OldestInWindow == rlLast.before[CHOOSE i \in InWindow : \A j \in InWindow : i <= j]

\* the last call of acquire was admitted and recorded exactly when fewer than
\* max_calls recorded timestamps lay within the last time_window; otherwise it
\* recorded nothing and returned the time left to the oldest of them, not negative;
\* the deque holds the latest of the recorded timestamps
AdmissionDecision ==
    AcquireDone =>
        /\ rlLast.admitted <=> Cardinality(InWindow) < max_calls
        /\ rlLast.admitted => rlAll = Append(rlLast.before, rlLast.now)
        /\ Len(calls) <= Len(rlAll)
        /\ calls = SubSeq(rlAll, Len(rlAll) - Len(calls) + 1, Len(rlAll))
        /\ ~rlLast.admitted =>
              /\ rlAll = rlLast.before
              /\ rlLast.wait >= 0
              /\ rlLast.wait = time_window - (rlLast.now - OldestInWindow)

\* the limit was reached at the instant of the last call: the latest recorded
\* timestamp is that instant
LimitReachedNow ==
    /\ ~rlLast.admitted
    /\ rlLast.before # <<>>
    /\ rlLast.before[Len(rlLast.before)] = rlLast.now

\* C14: acquire returns None and records the time iff fewer than max_calls
\* recorded timestamps lie within the last time_window; otherwise it records
\* nothing and returns the non-negative time until the oldest recorded call
\* leaves the window, strictly positive when the limit was reached at the same
\* instant.
C14_AdmissionRule ==
    /\ AdmissionDecision
    /\ AcquireDone /\ LimitReachedNow => rlLast.wait > 0

\* every call of acquire made so far falls within one window of the fresh limiter
OneWindow == rlAll # <<>> /\ rlNow - rlAll[1] < time_window

\* the calls of acquire that have returned
CallsMade == Len(rlAll) + Len(rlDenied)

\* C15: when the callers of a fresh limiter all call acquire within one window,
\* under every interleaving min(N, max_calls) of the N calls are admitted, the
\* others get a positive wait time, and the history holds exactly the admitted
\* timestamps, none lost and none twice.
C15_ExactlyMaxCalls ==
    OneWindow =>
        /\ Len(rlAll) = (IF CallsMade < max_calls THEN CallsMade ELSE max_calls)
        /\ \A k \in 1..Len(rlDenied) : rlDenied[k] > 0
        /\ calls = rlAll
        /\ Len(calls) <= max_calls

C15_Witness ==
    /\ OneWindow
    /\ CallsMade > max_calls
    /\ Len(calls) = max_calls
    /\ Len(rlDenied) = CallsMade - max_calls
    /\ \E t \in Callers : rlPc[t] = "in_acquire"

\* a return of wait_if_needed after the sleep whose second acquire was refused
SleptUnrecorded == [slept |-> TRUE, recorded |-> FALSE] \in rlReturned

\* a return of wait_if_needed whose only acquire was refused with a wait of zero
ZeroWaitUnrecorded == [slept |-> FALSE, recorded |-> FALSE] \in rlReturned

\* C16: every return of wait_if_needed has recorded the caller's call in the
\* history of the limiter, for any number of callers and any timing.
C16_ReturnRecorded == \A r \in rlReturned : r.recorded

\* a request to the CRM
Request(e) == e \in {"fetch", "bulk"}

\* C17: every request run_sync issues to the CRM (each page of the paginated
\* fetch, each bulk-update batch) is preceded by its own rate-limiter admission.
C17_RequestAdmitted ==
    \A i \in 1..Len(syEvents) :
        Request(syEvents[i]) => i > 1 /\ syEvents[i - 1] = "rate"

-----------------------------------------------------------------------------
(* Claims on the job tracker *)

\* the stored jobs that are neither completed nor failed
Unfinished == { i \in 1..Len(import_jobs) : ~Finished(import_jobs[i]) }

\* C18: after cleanup_old_jobs, run on its own or by get_job_status, a table
\* whose jobs are completed or failed but for at most MAX_JOBS_RETENTION
\* in_progress ones has at most MAX_JOBS_RETENTION entries.
C18_BoundAfterCleanup ==
    jtCleaned /\ Cardinality(Unfinished) <= MAX_JOBS_RETENTION
        => Len(import_jobs) <= MAX_JOBS_RETENTION

C18_Witness ==
    /\ jtCleaned
    /\ \E r \in jtRemoved : r.pass = "excess"
    /\ Len(import_jobs) = MAX_JOBS_RETENTION
    /\ Unfinished # {}
    /\ \E i \in 1..Len(import_jobs) : Finished(import_jobs[i])

\* C19: no call of set_job_status, get_job_status or cleanup_old_jobs removes
\* a job whose stored status is not completed or failed, whatever its timestamp
\* and however far the table is over the cap.
C19_InProgressKept ==
    [][\A i \in 1..Len(import_jobs) :
          ~Finished(import_jobs[i]) => import_jobs[i].job_id \in Keys(import_jobs')]_vars

C19_Witness ==
    /\ jtCleaned
    /\ jtRemoved # {}
    /\ Len(import_jobs) > MAX_JOBS_RETENTION
    /\ \E i \in 1..Len(import_jobs) :
          /\ import_jobs[i].status = "in_progress"
          /\ import_jobs[i].timestamp < jtNow - JOB_TTL_HOURS

\* C20: readers receive copies: changing the value returned by get_job_status
\* does not change what the table stores, and a stored entry changes only
\* through set_job_status.
C20_ReadersGetCopies == ~jtOutside

\* C21: get_job_status(id) returns the data of the latest set_job_status(id, ...),
\* or None for an id never set, and every set stores the caller's timestamp or,
\* when the caller gave none, the time of the call.
C21_GetReturnsLatestSet ==
    /\ jtGot \in {"none", "latest", "unknown_id"}
    /\ jtStamped

\* every set so far stored the caller's timestamp or the time of the call
TimestampRule == jtStamped

\* the last get_job_status returned a dict that a reader had changed after the set
GotChanged == jtGot = "changed"

\* the last get_job_status returned None for a job its own cleanup had just deleted
GotEvicted == jtGot = "evicted"

-----------------------------------------------------------------------------
(* Claims on the cooldown of force_sync *)

\* C22: a force_sync issued less than min_interval after the completion time of
\* the previous sync run is rejected and starts no run, whatever the history of
\* runs before it.
C22_Cooldown == \A t \in ForceRequests : trSoon[t] # "passed"

\* a force_sync that came after a run had completed is rejected for the cooldown
CooldownRejects == \E t \in ForceRequests : trSoon[t] = "came" /\ trPc[t] = "rejected_429"



-----------------------------------------------------------------------------
(* Claims on the single-record test mode *)

\* what process_interpreter_import decides, with update_existing=true, on a batch
\* of the one record test mode fetched, against the store test mode ran against
BatchDecision ==
    process_interpreter_import(<<tmRecord>>, tmStore0, TRUE, TestNow).decisions[1]

TestDecided == tmDecision.kind # "none" /\ tmDecision.reason # "commit raised"

\* C23: test mode selects the same local record and takes the same action, with
\* the same changed fields, as the batch path with update_existing=true on a
\* batch of that one record
C23_SameDecision ==
    TestDecided =>
        /\ tmDecision.kind = BatchDecision.kind
        /\ tmDecision.idx = BatchDecision.idx
        /\ \A f \in DataFields : tmDecision.after[f] = BatchDecision.after[f]

\* the batch path finds the local record by its record id and test mode, which
\* does not look the record id up, creates a second record
TestModeMissesRecordId ==
    /\ TestDecided
    /\ BatchDecision.key = "record_id"
    /\ BatchDecision.kind = "updated"
    /\ tmDecision.kind = "created"

TestReturned == tmPc = "returned"

WriteBackAttempted == \E i \in 1..Len(tmEvents) : tmEvents[i] = "update_record"

WriteBackFailed == WriteBackAttempted /\ ~tmResult.zoho_updated

ReconciliationFailed ==
    TestReturned /\ tmResult.record_fetched /\ ~tmResult.success

-----------------------------------------------------------------------------
(* Claims on the validation of requests *)

TestArgsMissing == tmPc # "off" /\ ~Truthy(tmArgs.record_id) /\ ~Truthy(tmArgs.email)

ImportArgsInvalid == bgPc # "off" /\ ~bgValid

\* C25: a test-mode call with neither record_id nor email returns an error with
\* no rate-limiter call, no CRM request and no lookup or change in the store; an
\* import request with max_records not an integer in 1..1000, or a language or
\* service_location that is not text, is answered with one message before any
\* job is registered, any CRM call is made or any candidate is processed
C25_ValidationFirst ==
    /\ TestArgsMissing =>
          /\ TestReturned
          /\ ~tmResult.success
          /\ tmResult.error # ""
          /\ tmEvents = <<>>
          /\ tmDecision.kind = "none"
    /\ ImportArgsInvalid =>
          /\ bgPc = "rejected"
          /\ bgDetail # ""
          /\ bgJob = 0
          /\ bgWrites = <<>>
          /\ bgEvents = <<>>
          /\ bgCands = <<>>
          /\ bgRes = EmptyImport(<<>>)

C25_Witness ==
    /\ TestArgsMissing
    /\ ImportArgsInvalid
    /\ bgDetail = "max_records cannot exceed 1000"

-----------------------------------------------------------------------------
(* Claims on the asynchronous import job *)

JobRunning == bgJob # 0 /\ bgPc \in {"started", "fetched", "processed"}

JobReturned == bgJob # 0 /\ bgPc = "done"

ProgressWritten == [i \in 1..Len(bgWrites) |-> bgWrites[i].progress]

LastWrite == bgWrites[Len(bgWrites)]

\* C26: the job of background_import_zoho_candidates is in_progress while the
\* function runs and is written completed or failed, once, as its last write; the
\* progress written by a completed import is 0, 30, 80, 100, or 0, 100 when no
\* candidate was fetched; the counts of a completed job add up to its total
C26_JobLifecycle ==
    /\ JobRunning =>
          /\ bgJob \in Keys(import_jobs)
          /\ import_jobs[Place(import_jobs, bgJob)].status = "in_progress"
          /\ \A i \in 1..Len(bgWrites) : bgWrites[i].status = "in_progress"
          /\ bgWrites[1].progress = 0
    /\ JobReturned =>
          /\ bgWrites[1] = [status |-> "in_progress", progress |-> 0]
          /\ LastWrite.status \in {"completed", "failed"}
          /\ \A i \in 1..(Len(bgWrites) - 1) : bgWrites[i].status = "in_progress"
          /\ bgJob \in Keys(import_jobs) =>
                import_jobs[Place(import_jobs, bgJob)].status = LastWrite.status
          /\ LastWrite.status = "completed" =>
                /\ ProgressWritten = IF bgCands = <<>> THEN <<0, 100>>
                                     ELSE <<0, 30, 80, 100>>
                /\ bgResults.total = bgResults.created + bgResults.updated
                                     + bgResults.skipped + bgResults.errors

C26_Witness ==
    /\ JobReturned
    /\ LastWrite.status = "completed"
    /\ ProgressWritten = <<0, 30, 80, 100>>
    /\ bgResults.total = 2
    /\ bgResults.errors = 1

\* a job that failed at its commit
JobFailedAtCommit ==
    JobReturned /\ LastWrite.status = "failed" /\ ProgressWritten = <<0, 30, 80, 0>>

-----------------------------------------------------------------------------
(* Claims on passes that overlap *)

\* the pass of the import request has created or updated records in its session
\* and has not committed yet
ImportPassOpen ==
    bgPc = "processed" /\ Len(bgRes.created) + Len(bgRes.updated) > 0

\* another pass has committed a creation or an update since the pass of the
\* import request ran its lookups
OtherPassCommitted ==
    /\ store # bgStore0
    /\ tmDecision.kind \in {"created", "updated"}

\* C27: no two reconciliation passes add or update interpreter records at the
\* same time: while a pass holds records it created or updated and has not
\* committed, no other pass commits a creation or an update
C27_OnePassAtATime == ~(ImportPassOpen /\ OtherPassCommitted)

\* the passes of an import request and of a test-mode call, one after the other
PassesInTurn ==
    /\ bgPc = "done"
    /\ Len(bgRes.created) + Len(bgRes.updated) > 0
    /\ tmDecision.kind \in {"created", "updated"}
    /\ store = CommitInto(bgStore0, bgRes)

-----------------------------------------------------------------------------
(* Claims on the start of a sync run *)

\* C28: the sync_operations row of a run is committed with status running before
\* the run's first rate-limiter call, its first CRM request and its first change
\* to an interpreter record
C28_RunningFirst ==
    syEvents # <<>> =>
        /\ syWrites # <<>>
        /\ syWrites[1] = NewSyncOperation
        /\ syRow.status # "absent"

C28_Witness ==
    /\ syEvents = <<"rate">>
    /\ syRow = NewSyncOperation
    /\ syWrites = <<NewSyncOperation>>

-----------------------------------------------------------------------------
(* Claims on the display name *)

\* the candidate's Full_Name when it is present and not empty, 'Unknown' otherwise
ExpectedName(candidate) ==
    IF Truthy(candidate["Full_Name"]) THEN candidate["Full_Name"] ELSE Str(UnknownText)

ImportCommitted == bgPc = "done" /\ bgEvents # <<>> /\ bgEvents[Len(bgEvents)] = "commit"

NameAsMapped(decision, candidate) ==
    decision.kind \in {"created", "updated"} =>
        /\ Truthy(decision.after.contact_name)
        /\ decision.after.contact_name = ExpectedName(candidate)

NameUpToSpaces(decision, candidate) ==
    decision.kind \in {"created", "updated"} =>
        /\ Truthy(decision.after.contact_name)
        /\ IF decision.kind = "created"
           THEN decision.after.contact_name = ExpectedName(candidate)
           ELSE get_changed_fields_normalize(decision.after.contact_name)
                    = get_changed_fields_normalize(ExpectedName(candidate))

-----------------------------------------------------------------------------
(* Claims on the write-back of a sync run *)

\* the ids of the candidates the run classified created or updated, in input
\* order, for the candidates that have an id
RECURSIVE ClassifiedIds(_)
ClassifiedIds(n) ==
    IF n = 0 THEN <<>>
    ELSE ClassifiedIds(n - 1) \o
         (IF /\ syRes.decisions[n].kind \in {"created", "updated"}
             /\ Truthy(syCands[n]["id"])
          THEN <<syCands[n]["id"]>> ELSE <<>>)

RECURSIVE IdsSent(_)
IdsSent(n) == IF n = 0 THEN <<>> ELSE IdsSent(n - 1) \o sySent[n]

Times(seq, v) == Cardinality({ i \in 1..Len(seq) : seq[i] = v })

\* the write-back loop has ended
WriteBackOver ==
    /\ syPc \in {"writeback", "log_synced", "finalize", "log_final", "returned_final"}
    /\ syNext >= Len(syIds)

\* C30: the ids sent with the 'Synced' marker are the ids of the candidates
\* classified created or updated, each sent once; a batch has at most
\* batch_size ids, and a wait_if_needed comes before each bulk request
C30_WriteBackScope ==
    /\ \A b \in 1..Len(sySent) : Len(sySent[b]) \in 1..batch_size
    /\ \A i \in 1..Len(syEvents) : syEvents[i] = "bulk" => i > 1 /\ syEvents[i - 1] = "rate"
    /\ Cardinality({ i \in 1..Len(syEvents) : syEvents[i] = "bulk" }) = Len(sySent)
    /\ IdsSent(Len(sySent)) = SubSeq(syIds, 1, Min(syNext, Len(syIds)))
    /\ WriteBackOver =>
          \A n \in 1..Len(syCands) :
              Times(IdsSent(Len(sySent)), syCands[n]["id"])
                  = Times(ClassifiedIds(Len(syCands)), syCands[n]["id"])

\* a run whose write-back sent, in two batches, the ids of the candidates it
\* created or updated
SentInBatches ==
    /\ WriteBackOver
    /\ Len(sySent) = 2
    /\ IdsSent(Len(sySent)) = ClassifiedIds(Len(syCands))

\* a run that updated one local record for two candidates with different ids,
\* sent the id of one of them twice and did not send the id of the other
SentTwice ==
    /\ WriteBackOver
    /\ Len(syCands) = 2
    /\ syCands[1]["id"] # syCands[2]["id"]
    /\ ClassifiedIds(2) = <<syCands[1]["id"], syCands[2]["id"]>>
    /\ IdsSent(Len(sySent)) = <<syCands[2]["id"], syCands[2]["id"]>>

-----------------------------------------------------------------------------
(* Claims on the failures of the write-back *)

\* the number of items the CRM reported as SUCCESS in the first n replies
RECURSIVE ReportedSuccess(_)
ReportedSuccess(n) ==
    IF n = 0 THEN 0
    ELSE ReportedSuccess(n - 1) +
         (IF syReplied[n].kind = "items"
          THEN Len(sySent[n]) - Cardinality(syReplied[n].failing) ELSE 0)

\* the run is over, whichever way it ended
RunOver == syPc \in {"returned_empty", "returned_final", "returned_failed", "raised"}

\* C31: an item reported as failed does not keep the other items of its batch
\* from being counted, a bulk request that raised does not keep the later
\* batches from being sent, every id of a batch whose request raised is a
\* write-back error, and total_synced_to_zoho is the number of items the CRM
\* reported as SUCCESS
C31_IndependentFailures ==
    /\ Len(sySynced) = ReportedSuccess(Len(syReplied))
    /\ \A b \in 1..Len(syReplied) :
          syReplied[b].kind = "raised" =>
              \A i \in 1..Len(sySent[b]) : Times(syErrs, sySent[b][i]) > 0
    /\ RunOver /\ sySent # <<>> =>
          /\ syNext >= Len(syIds)
          /\ syPc = "returned_final" =>
                syRow.total_synced_to_zoho = ReportedSuccess(Len(syReplied))

\* a run whose first reply reported one item of two as failed, with the other
\* counted, and whose second bulk request raised, with its ids recorded as errors
FailuresKeptApart ==
    /\ syPc = "returned_final"
    /\ Len(syReplied) = 2
    /\ syReplied[1].kind = "items"
    /\ Len(sySent[1]) = 2
    /\ Cardinality(syReplied[1].failing) = 1
    /\ syReplied[2].kind = "raised"
    /\ syRow.total_synced_to_zoho = 1
    /\ Len(syErrs) = 1 + Len(sySent[2])

\* a run whose first bulk request raised and whose second batch was sent
SentAfterRaise ==
    /\ syPc = "returned_final"
    /\ Len(syReplied) = 2
    /\ syReplied[1].kind = "raised"
    /\ syReplied[2].kind = "items"

\* a run that returned with fewer records counted as synced than the CRM
\* reported as SUCCESS: the log line of a failed item raised
SuccessNotCounted ==
    /\ syPc = "returned_final"
    /\ syRow.total_synced_to_zoho < ReportedSuccess(Len(syReplied))

\* a run that ended with a batch never sent: the log line of a failed item and
\* the log line of the except clause raised
BatchNeverSent ==
    /\ RunOver
    /\ sySent # <<>>
    /\ syNext < Len(syIds)
    /\ syReplied[Len(syReplied)].kind = "items"

-----------------------------------------------------------------------------
(* Claims on the order of the write-back *)

\* C32: the record ids sent to the CRM for the 'Synced' marker, read across
\* the successive batches, are in the order in which their candidates were
\* fetched
C32_FetchOrder ==
    sySent # <<>> =>
        LET sent == IdsSent(Len(sySent))
            fetched == ClassifiedIds(Len(syCands))
        IN /\ Len(sent) <= Len(fetched)
           /\ sent = SubSeq(fetched, 1, Len(sent))

\* the record ids, for the candidates 1..n classified kind and in the order of
\* the fetch, of the local records they created or updated, as the records
\* are after the reconciliation
RECURSIVE RecordIdsOf(_, _)
RecordIdsOf(kind, n) ==
    IF n = 0 THEN <<>>
    ELSE RecordIdsOf(kind, n - 1) \o
         (LET d == syRes.decisions[n]
              rid == IF kind = "created" THEN d.after.record_id
                     ELSE syRes.rows[d.idx].record_id
          IN  IF d.kind = kind /\ Truthy(rid) THEN <<rid>> ELSE <<>>)

\* C32, amended: the record ids sent are first the ids of the records created,
\* in the order in which their candidates were fetched, then the ids of the
\* records updated, in the order in which their candidates were fetched
C32_CreatedThenUpdated ==
    sySent # <<>> =>
        LET sent == IdsSent(Len(sySent))
            expected == RecordIdsOf("created", Len(syCands))
                            \o RecordIdsOf("updated", Len(syCands))
        IN /\ Len(sent) <= Len(expected)
           /\ sent = SubSeq(expected, 1, Len(sent))
           /\ WriteBackOver => sent = expected

\* a run that fetched a candidate it updated and then a candidate it created,
\* and sent the id of the second before the id of the first
CreatedSentFirst ==
    /\ WriteBackOver
    /\ Len(syCands) = 2
    /\ syRes.decisions[1].kind = "updated"
    /\ syRes.decisions[2].kind = "created"
    /\ syCands[1]["id"] # syCands[2]["id"]
    /\ IdsSent(Len(sySent)) = <<syCands[2]["id"], syCands[1]["id"]>>

\* a run that created two records and sent their ids in the order of the fetch
CreatedInFetchOrder ==
    /\ WriteBackOver
    /\ Len(syCands) = 2
    /\ syRes.decisions[1].kind = "created"
    /\ syRes.decisions[2].kind = "created"
    /\ syCands[1]["id"] # syCands[2]["id"]
    /\ IdsSent(Len(sySent)) = <<syCands[1]["id"], syCands[2]["id"]>>

-----------------------------------------------------------------------------
(* Claims on the order of the retention *)

\* a finished entry whose timestamp is older than the TTL
Expired(e) == Finished(e) /\ e.timestamp < jtNow - JOB_TTL_HOURS

\* a step in which cleanup_old_jobs ran: the clock stands still and every entry
\* of the table is an entry the table had
CleanupStep ==
    /\ jtCleaned'
    /\ jtNow' = jtNow
    /\ \A i \in 1..Len(import_jobs') : \E j \in 1..Len(import_jobs) :
          import_jobs[j] = import_jobs'[i]

\* the places whose entries a step removed without their being expired
RemovedUnexpired ==
    { i \in 1..Len(import_jobs) :
        ~Expired(import_jobs[i]) /\ import_jobs[i].job_id \notin Keys(import_jobs') }

\* C33: a cleanup of a table over the cap removes every completed or failed
\* entry older than the TTL; it removes other entries only if the table is then
\* still over the cap, only completed or failed ones, the earliest inserted
\* first and no more than it takes to reach the cap
C33_RetentionOrder ==
    [][CleanupStep /\ Len(import_jobs) > MAX_JOBS_RETENTION =>
          /\ \A i \in 1..Len(import_jobs) :
                Expired(import_jobs[i]) => import_jobs[i].job_id \notin Keys(import_jobs')
          /\ import_jobs' = SelectSeq(import_jobs, LAMBDA e : e.job_id \in Keys(import_jobs'))
          /\ RemovedUnexpired # {} => Len(import_jobs') >= MAX_JOBS_RETENTION
          /\ Len(import_jobs') > MAX_JOBS_RETENTION =>
                \A i \in 1..Len(import_jobs') : ~Finished(import_jobs'[i])
          /\ \A i \in RemovedUnexpired :
                /\ Finished(import_jobs[i])
                /\ \A j \in 1..(i - 1) :
                      Finished(import_jobs[j]) =>
                          import_jobs[j].job_id \notin Keys(import_jobs')]_vars

\* a cleanup removed an expired entry and, the table being still over the cap,
\* one entry within the TTL, and left MAX_JOBS_RETENTION finished entries
C33_Witness ==
    /\ jtCleaned
    /\ { r.pass : r \in jtRemoved } = {"ttl", "excess"}
    /\ Len(import_jobs) = MAX_JOBS_RETENTION
    /\ \A i \in 1..Len(import_jobs) : Finished(import_jobs[i])

-----------------------------------------------------------------------------
(* Claims on the rows of a manual trigger *)

\* the background run of an accepted force_sync has ended
RunEnded(t) == trPc[t] = "done" /\ trGiven[t] # 0

\* C34: an accepted manual trigger creates one sync_operations row: the row
\* returned to the caller is the row the run finalizes, and once the run has
\* ended no row created for the trigger has status running
C34_OneRowPerRun ==
    \A t \in ForceRequests :
        RunEnded(t) =>
            /\ trGiven[t] = trRunRow[t]
            /\ trOps[trGiven[t]].status # "running"

\* a trigger whose run ended with a terminal status on its own row, while the
\* row the caller was given is another row and still has status running
PlaceholderLeftRunning ==
    \E t \in ForceRequests :
        /\ RunEnded(t)
        /\ trRunRow[t] # 0
        /\ trRunRow[t] # trGiven[t]
        /\ trOps[trRunRow[t]].status \in Terminal
        /\ trOps[trGiven[t]].status = "running"
        /\ Len(trOps) = 2

-----------------------------------------------------------------------------
(* Claims on the candidates that are skipped *)

\* the import of the first k candidates of the batch
ImportOfFirst(k) ==
    process_interpreter_import(SubSeq(rcBatch, 1, k), rcStore0, rcUpd, rcNow)

Imported == rcPhase \in {"pass1", "pass2"}

\* C35: a candidate classified skipped has matched a local record, with reason
\* 'Already exists' when update_existing is false and 'No changes detected'
\* otherwise; processing it changes no field of any record of the session and
\* creates no record, and a batch of skipped candidates leaves the store as it was
C35_SkipLeavesStore ==
    Imported =>
        /\ \A k \in 1..Len(rcBatch) :
              rcRes.decisions[k].kind = "skipped" =>
                  /\ rcRes.decisions[k].idx \in 1..Len(rcStore0)
                  /\ rcRes.decisions[k].reason =
                        (IF rcUpd THEN "No changes detected" ELSE "Already exists")
                  /\ ImportOfFirst(k).rows = ImportOfFirst(k - 1).rows
                  /\ ImportOfFirst(k).added = ImportOfFirst(k - 1).added
        /\ (\A k \in 1..Len(rcBatch) : rcRes.decisions[k].kind = "skipped") =>
              store = rcStore0

\* a committed import that created a record for its first candidate and skipped
\* the second, which matched a local record
C35_Witness ==
    /\ Imported
    /\ rcCommitted
    /\ Len(rcBatch) = 2
    /\ rcRes.decisions[1].kind = "created"
    /\ rcRes.decisions[2].kind = "skipped"
    /\ rcRes.decisions[2].reason = "No changes detected"
    /\ store = rcStore0 \o <<rcRes.decisions[1].after>>

-----------------------------------------------------------------------------
(* Claims on the identifiers of created records *)

\* C36: the identifiers of the records one import creates are pairwise
\* distinct, all of them being created within the same millisecond
C36_DistinctIds ==
    Imported =>
        /\ \A i, j \in 1..Len(rcRes.added) :
              i # j => rcRes.added[i]["id"] # rcRes.added[j]["id"]
        /\ \A i \in 1..Len(rcRes.added) : rcRes.added[i]["id"][1] = rcNow

\* a committed import that created two records in the same millisecond
C36_Witness ==
    /\ Imported
    /\ rcCommitted
    /\ Len(rcRes.added) = 2
    /\ rcRes.added[1]["id"] = <<rcNow, 0>>
    /\ rcRes.added[2]["id"] = <<rcNow, 1>>
    /\ Len(store) = Len(rcStore0) + 2

-----------------------------------------------------------------------------
(* sync_engine.py: one call served, a sync run or a test-mode call, each from
   its first statement to its return *)

MarkInit == SyInit /\ TmIdle /\ BgIdle /\ RcIdle /\ ChIdle /\ TrIdle /\ RlIdle /\ JtIdle

NoTestCall == tmPc = "off"

NoSyncRun == syPc = "start"

MarkNext ==
    \/ NoTestCall /\ RunCreate
    \/ NoTestCall /\ RunLogStart
    \/ NoTestCall /\ RunRateLimit
    \/ NoTestCall /\ RunLogFetching
    \/ NoTestCall /\ RunFetch
    \/ NoTestCall /\ RunCommitFetched
    \/ NoTestCall /\ RunLogFetched
    \/ NoTestCall /\ RunFinishEmpty
    \/ NoTestCall /\ RunLogEmpty
    \/ NoTestCall /\ RunLogProcessing
    \/ NoTestCall /\ RunProcess
    \/ NoTestCall /\ RunLogResults
    \/ NoTestCall /\ RunWriteBackBatch
    \/ NoTestCall /\ RunCommitSynced
    \/ NoTestCall /\ RunLogSynced
    \/ NoTestCall /\ RunFinalize
    \/ NoTestCall /\ RunLogFinal
    \/ NoTestCall /\ RunHandler
    \/ NoTestCall /\ RunHandlerLog
    \/ \E record_id \in TestIds, email \in TestEmails : NoSyncRun /\ TmCall(record_id, email)
    \/ \E how \in {"raise", "missing", "page1", "later"}, record \in TestRecords :
           NoSyncRun /\ TmFetch(how, record)
    \/ \E fails \in BOOLEAN : NoSyncRun /\ TmReconcile(fails)
    \/ \E fails \in BOOLEAN : NoSyncRun /\ TmWriteBack(fails)

SpecMark == MarkInit /\ [][MarkNext]_vars

-----------------------------------------------------------------------------
(* Claims on the order of the local commit and the 'Synced' marker *)

\* the position of the first event e of a sequence of events, 0 if there is none
FirstEvent(events, e) ==
    IF \E i \in 1..Len(events) : events[i] = e
    THEN CHOOSE i \in 1..Len(events) :
             events[i] = e /\ \A j \in 1..(i - 1) : events[j] # e
    ELSE 0

\* C37: when run_sync has sent a bulk update, the records its reconciliation
\* created and updated are the committed store and every id sent is the record
\* id of a committed record; when test mode has sent its update, its commit
\* came first and the record it created or updated is in the committed store
C37_CommitBeforeMark ==
    /\ sySent # <<>> =>
          /\ FirstEvent(syEvents, "reconcile") \in 1..(FirstEvent(syEvents, "bulk") - 1)
          /\ store = syRes.rows \o syRes.added
          /\ \A b \in 1..Len(sySent) : \A i \in 1..Len(sySent[b]) :
                \E r \in 1..Len(store) : store[r].record_id = sySent[b][i]
    /\ WriteBackAttempted =>
          /\ FirstEvent(tmEvents, "commit") \in 1..(FirstEvent(tmEvents, "update_record") - 1)
          /\ tmDecision.kind \in {"created", "updated"}
          /\ \E r \in 1..Len(store) : store[r] = tmDecision.after

\* a sync run that created a record and sent its id, the record being committed
SyncMarkedCommitted ==
    /\ syPc = "returned_final"
    /\ Len(sySent) = 1
    /\ Len(syRes.added) = 1
    /\ Len(store) = Len(syRes.rows) + 1
    /\ store[Len(store)].record_id = sySent[1][1]

\* a test-mode call that updated a record and sent the update to the CRM
TestMarkedCommitted ==
    /\ TestReturned
    /\ WriteBackAttempted
    /\ tmDecision.kind = "updated"
    /\ store # tmStore0

-----------------------------------------------------------------------------
(* Claims on the release of the single-flight flag *)

\* an accepted force_sync that has set the flag and whose endpoint or
\* background task has not yet cleared it
HoldsFlag(t) ==
    trPc[t] \in {"add_task", "queued", "in_run_sync", "run_sync_returned", "run_sync_raised"}

\* C38: the flag is set only while an accepted force_sync is between setting
\* it and the end of its background run, whether run_sync returned or raised;
\* once no trigger is under way the flag is false and a later trigger passes
\* the check
C38_FlagReleased ==
    is_syncing => \E t \in ForceRequests : HoldsFlag(t)

\* the run of one trigger ended with an exception out of run_sync, the flag is
\* false, and another trigger has passed the flag check and the cooldown
C38_Witness ==
    \E t, u \in ForceRequests :
        /\ t # u
        /\ RunEnded(t)
        /\ trRunRow[t] = 0
        /\ ~is_syncing
        /\ trPc[u] = "set_flag"

-----------------------------------------------------------------------------
(* Claims on a fetch that fails *)

\* a page request was made and the fetch did not come back
FetchFailed == Called("fetch") /\ ~Called("fetched")

\* C39: when the fetch of candidates has failed, every count stays 0, the
\* reconciliation is not run, the store is as it was and no write-back request
\* is sent; the run that returns returns failed, with its error recorded
C39_FetchFailure ==
    FetchFailed =>
        /\ \A c \in Counts : syRow[c] = 0 /\ syOp[c] = 0
        /\ syCands = <<>>
        /\ syRes = NoResult
        /\ store \in InitStores
        /\ ~Called("reconcile")
        /\ ~Called("bulk")
        /\ sySent = <<>>
        /\ syPc \in Returned =>
              /\ syPc = "returned_failed"
              /\ syRow.status = "failed"
              /\ syRow.error_message
              /\ syRow.completed_at
              /\ syOp = syRow

\* a run whose first page request raised, nothing else failing, and that
\* returned failed
C39_Witness ==
    /\ FetchFailed
    /\ syPc = "returned_failed"
    /\ syFaults = 1
    /\ syEvents = <<"rate", "fetch">>
    /\ syRow.status = "failed"

-----------------------------------------------------------------------------
(* Claims on the agreement of has_changes and get_changed_fields *)

\* C40: for a candidate that matched a local record, has_changes is true if
\* and only if get_changed_fields is not empty, and with update_existing the
\* candidate is classified updated exactly when the changed map is not empty;
\* a candidate that differs from its record only in record_id is updated and
\* the record takes its id
C40_ChangeAgreement ==
    Imported =>
        \A k \in 1..Len(rcBatch) :
            LET d == rcRes.decisions[k]
                data == map_zoho_contact_to_interpreter(rcBatch[k])
            IN  d.kind \in {"updated", "skipped"} =>
                    /\ has_changes(d.before, data) <=> get_changed_fields(d.before, data) # {}
                    /\ rcUpd => (d.kind = "updated" <=> get_changed_fields(d.before, data) # {})
                    /\ rcUpd /\ get_changed_fields(d.before, data) = {"record_id"} =>
                          d.after.record_id = data.record_id

\* an import with update_existing that skipped, as unchanged, a candidate that
\* matched a local record by its email and differs from it in record_id alone;
\* the record keeps the id it had
RecordIdNotTaken ==
    /\ Imported
    /\ rcUpd
    /\ rcCommitted
    /\ Len(rcBatch) = 1
    /\ rcRes.decisions[1].kind = "skipped"
    /\ rcRes.decisions[1].key = "email"
    /\ rcRes.decisions[1].reason = "No changes detected"
    /\ get_changed_fields(rcRes.decisions[1].before,
                          map_zoho_contact_to_interpreter(rcBatch[1])) = {"record_id"}
    /\ store[rcRes.decisions[1].idx].record_id # rcBatch[1]["id"]

\* an import that updated a record for a candidate that differs from it in a
\* tracked field, the two functions agreeing
ChangeSeenByBoth ==
    /\ Imported
    /\ Len(rcBatch) = 1
    /\ rcRes.decisions[1].kind = "updated"
    /\ has_changes(rcRes.decisions[1].before, map_zoho_contact_to_interpreter(rcBatch[1]))
    /\ "last_name" \in get_changed_fields(rcRes.decisions[1].before,
                                          map_zoho_contact_to_interpreter(rcBatch[1]))

=============================================================================
